---- MODULE Spec2Model ----
(***************************************************************************)
(* Snippet (Electron main process, src/main.js): the trust boundary        *)
(* between the renderer and the privileged backend.                        *)
(*                                                                         *)
(* JavaScript strings are sequences of one-character strings, so that      *)
(* trimming, length, URL parsing and host normalisation are computed on    *)
(* the characters.  Naturals that may exceed 31 bits (decimal host         *)
(* numbers, 0xffffffff) are big-endian sequences of base-256 limbs.        *)
(***************************************************************************)
EXTENDS Integers, Sequences, FiniteSets, TLC

(***************************************************************************)
(* Characters and strings                                                  *)
(***************************************************************************)
Digits == {"0", "1", "2", "3", "4", "5", "6", "7", "8", "9"}

UpperToLower ==
    [c \in {"A", "B", "C", "D", "E", "F", "G", "H", "I", "J", "K", "L", "M",
            "N", "O", "P", "Q", "R", "S", "T", "U", "V", "W", "X", "Y", "Z"} |->
        CASE c = "A" -> "a" [] c = "B" -> "b" [] c = "C" -> "c" [] c = "D" -> "d"
          [] c = "E" -> "e" [] c = "F" -> "f" [] c = "G" -> "g" [] c = "H" -> "h"
          [] c = "I" -> "i" [] c = "J" -> "j" [] c = "K" -> "k" [] c = "L" -> "l"
          [] c = "M" -> "m" [] c = "N" -> "n" [] c = "O" -> "o" [] c = "P" -> "p"
          [] c = "Q" -> "q" [] c = "R" -> "r" [] c = "S" -> "s" [] c = "T" -> "t"
          [] c = "U" -> "u" [] c = "V" -> "v" [] c = "W" -> "w" [] c = "X" -> "x"
          [] c = "Y" -> "y" [] c = "Z" -> "z"]

UpperAlpha == DOMAIN UpperToLower

LowerAlpha == {UpperToLower[c] : c \in UpperAlpha}

Alpha == UpperAlpha \cup LowerAlpha

\* String.prototype.toLowerCase, one character
LowerChar(c) == IF c \in UpperAlpha THEN UpperToLower[c] ELSE c

\* String.prototype.toLowerCase
toLowerCase(s) == [i \in 1..Len(s) |-> LowerChar(s[i])]

\* the white space String.prototype.trim removes (of the characters used here)
IsWhiteSpace(c) == c \in {" ", "\t", "\n"}

MinOf(S) == CHOOSE x \in S : \A y \in S : x <= y

MaxOf(S) == 0 - MinOf({0 - x : x \in S})

\* String.prototype.trim
trim(s) ==
    LET keep == {i \in 1..Len(s) : ~IsWhiteSpace(s[i])}
    IN  IF keep = {} THEN <<>> ELSE SubSeq(s, MinOf(keep), MaxOf(keep))

\* String.prototype.startsWith
startsWith(s, p) == Len(p) <= Len(s) /\ SubSeq(s, 1, Len(p)) = p

\* index of the first occurrence of a character of cs in s at or after from,
\* Len(s) + 1 when there is none
FirstOf(s, cs, from) ==
    LET hits == {i \in from..Len(s) : s[i] \in cs}
    IN  IF hits = {} THEN Len(s) + 1 ELSE MinOf(hits)

\* String.prototype.split on a one-character separator
RECURSIVE split(_, _)
split(s, sep) ==
    LET k == FirstOf(s, {sep}, 1)
    IN  IF k > Len(s) THEN <<s>>
        ELSE <<SubSeq(s, 1, k - 1)>> \o split(SubSeq(s, k + 1, Len(s)), sep)

\* n copies of character c
Repeat(c, n) == [i \in 1..n |-> c]

(***************************************************************************)
(* Naturals of any size: big-endian base-256 limbs, no leading zero limb   *)
(* (zero is the empty sequence)                                            *)
(***************************************************************************)
DigitValue(c) ==
    CASE c = "0" -> 0 [] c = "1" -> 1 [] c = "2" -> 2 [] c = "3" -> 3
      [] c = "4" -> 4 [] c = "5" -> 5 [] c = "6" -> 6 [] c = "7" -> 7
      [] c = "8" -> 8 [] c = "9" -> 9 [] c = "a" -> 10 [] c = "b" -> 11
      [] c = "c" -> 12 [] c = "d" -> 13 [] c = "e" -> 14 [] c = "f" -> 15
      [] OTHER -> 99

\* whether c is a digit of radix r (case-insensitive for hexadecimal)
IsRadixDigit(c, r) == DigitValue(LowerChar(c)) < r

\* limbs * m + carry, limbs little-endian here
RECURSIVE MulAddLE(_, _, _)
MulAddLE(le, m, carry) ==
    IF le = <<>>
    THEN IF carry = 0 THEN <<>> ELSE <<carry % 256>> \o MulAddLE(<<>>, m, carry \div 256)
    ELSE LET v == Head(le) * m + carry
         IN  <<v % 256>> \o MulAddLE(Tail(le), m, v \div 256)

Reverse(s) == [i \in 1..Len(s) |-> s[Len(s) + 1 - i]]

\* the natural written by the digits of s in radix r
RECURSIVE ParseNatLE(_, _, _)
ParseNatLE(s, r, acc) ==
    IF s = <<>> THEN acc
    ELSE ParseNatLE(Tail(s), r, MulAddLE(acc, r, DigitValue(LowerChar(Head(s)))))

ParseNat(s, r) == Reverse(ParseNatLE(s, r, <<>>))

\* the limbs of n, left-padded with zero limbs to k limbs (Len(n) <= k)
PadLimbs(n, k) == Repeat(0, k - Len(n)) \o n

\* decimal text of a small natural
DigitChar(d) ==
    CASE d = 0 -> "0" [] d = 1 -> "1" [] d = 2 -> "2" [] d = 3 -> "3"
      [] d = 4 -> "4" [] d = 5 -> "5" [] d = 6 -> "6" [] d = 7 -> "7"
      [] d = 8 -> "8" [] d = 9 -> "9" [] d = 10 -> "a" [] d = 11 -> "b"
      [] d = 12 -> "c" [] d = 13 -> "d" [] d = 14 -> "e" [] OTHER -> "f"

RECURSIVE NatToText(_, _)
NatToText(n, r) ==
    IF n < r THEN <<DigitChar(n)>> ELSE NatToText(n \div r, r) \o <<DigitChar(n % r)>>

(***************************************************************************)
(* new URL(input): the WHATWG URL parser of Node, for absolute URLs        *)
(* without credentials, percent-escapes or non-ASCII characters.  The      *)
(* result carries what the code reads (protocol, hostname) and href.       *)
(***************************************************************************)
HexDigits == Digits \cup {"a", "b", "c", "d", "e", "f", "A", "B", "C", "D", "E", "F"}

RECURSIVE Join(_, _)
Join(parts, sep) ==
    IF parts = <<>> THEN <<>>
    ELSE IF Len(parts) = 1 THEN parts[1]
    ELSE parts[1] \o sep \o Join(Tail(parts), sep)

AllIn(s, cs) == \A i \in 1..Len(s) : s[i] \in cs

ParseFailure == [ok |-> FALSE, n |-> <<>>]

\* WHATWG "IPv4 number parser": decimal, 0-prefixed octal or 0x-prefixed hexadecimal
ParseIPv4Number(p) ==
    IF p = <<>> THEN ParseFailure
    ELSE LET hex == Len(p) >= 2 /\ p[1] = "0" /\ p[2] \in {"x", "X"}
             oct == ~hex /\ Len(p) >= 2 /\ p[1] = "0"
             r == IF hex THEN 16 ELSE IF oct THEN 8 ELSE 10
             body == IF hex THEN SubSeq(p, 3, Len(p))
                     ELSE IF oct THEN Tail(p) ELSE p
         IN  IF \E i \in 1..Len(body) : ~IsRadixDigit(body[i], r) THEN ParseFailure
             ELSE [ok |-> TRUE, n |-> ParseNat(body, r)]

\* the dot-separated parts of a host, a single trailing empty part dropped
HostParts(host) ==
    LET parts == split(host, ".")
    IN  IF Len(parts) > 1 /\ parts[Len(parts)] = <<>>
        THEN SubSeq(parts, 1, Len(parts) - 1) ELSE parts

\* WHATWG "ends in a number checker"
LastPartIsNumber(parts, last) ==
    /\ ~(Len(parts) = 1 /\ parts[1] = <<>>)
    /\ last # <<>>
    /\ (AllIn(last, Digits) \/ ParseIPv4Number(last).ok)

EndsInNumber(host) ==
    LastPartIsNumber(split(host, "."), HostParts(host)[Len(HostParts(host))])

SerializeIPv4(octets) == Join([i \in 1..4 |-> NatToText(octets[i], 10)], <<".">>)

\* WHATWG "IPv4 parser": the four octets, or failure
IPv4OfNumbers(nums) ==
    LET n == Len(nums)
    IN  IF n > 4 \/ \E i \in 1..n : ~nums[i].ok THEN [ok |-> FALSE, octets |-> <<>>]
        ELSE IF \E i \in 1..(n - 1) : Len(nums[i].n) > 1 THEN [ok |-> FALSE, octets |-> <<>>]
        ELSE IF Len(nums[n].n) > 5 - n THEN [ok |-> FALSE, octets |-> <<>>]
        ELSE [ok |-> TRUE,
              octets |-> [i \in 1..(n - 1) |-> IF nums[i].n = <<>> THEN 0 ELSE nums[i].n[1]]
                         \o PadLimbs(nums[n].n, 5 - n)]

MapIPv4Numbers(parts) == [i \in 1..Len(parts) |-> ParseIPv4Number(parts[i])]

ParseIPv4(host) == IPv4OfNumbers(MapIPv4Numbers(HostParts(host)))

\* a decimal IPv4 piece inside an IPv6 literal: no leading zero, at most 255
IsIPv6DecimalPiece(p) ==
    /\ p # <<>> /\ Len(p) <= 3 /\ AllIn(p, Digits)
    /\ (Len(p) > 1 => p[1] # "0")
    /\ Len(ParseNat(p, 10)) <= 1

SmallNat(s, r) == LET n == ParseNat(s, r) IN IF n = <<>> THEN 0 ELSE n[1]

\* the 16-bit pieces written by one colon-separated group of an IPv6 literal
\* (<<>> when the group is malformed); lastGroup allows a dotted IPv4 tail
IPv6GroupPieces(g, lastGroup) ==
    IF g # <<>> /\ Len(g) <= 4 /\ AllIn(g, HexDigits)
    THEN LET n == PadLimbs(ParseNat(g, 16), 2) IN <<n[1] * 256 + n[2]>>
    ELSE LET d == split(g, ".")
         IN  IF lastGroup /\ Len(d) = 4 /\ \A i \in 1..4 : IsIPv6DecimalPiece(d[i])
             THEN <<SmallNat(d[1], 10) * 256 + SmallNat(d[2], 10),
                    SmallNat(d[3], 10) * 256 + SmallNat(d[4], 10)>>
             ELSE <<>>

RECURSIVE Flatten(_)
Flatten(ss) == IF ss = <<>> THEN <<>> ELSE Head(ss) \o Flatten(Tail(ss))

\* WHATWG "IPv6 parser" on the text between the brackets: eight pieces, or failure
\* the pieces of the groups left and right of "::" (at k, 0 when there is
\* none; doubles counts the "::")
IPv6OfGroups(k, doubles, Lp, Rp) ==
    LET left == Flatten(Lp)
        right == Flatten(Rp)
        total == Len(Flatten(Lp)) + Len(Flatten(Rp))
    IN  IF \/ doubles > 1
           \/ \E i \in 1..Len(Lp) : Lp[i] = <<>>
           \/ \E i \in 1..Len(Rp) : Rp[i] = <<>>
           \/ (k = 0 /\ total # 8)
           \/ (k # 0 /\ total > 7)
        THEN [ok |-> FALSE, pieces |-> <<>>]
        ELSE [ok |-> TRUE, pieces |-> left \o Repeat(0, 8 - total) \o right]

\* the colon-separated groups of a text, each parsed to its pieces; only
\* the last group may be a dotted IPv4 tail, and only when tail is TRUE
IPv6Groups(text, tail) ==
    IF text = <<>> THEN <<>>
    ELSE [i \in 1..Len(split(text, ":")) |->
             IPv6GroupPieces(split(text, ":")[i], tail /\ i = Len(split(text, ":")))]

IPv6AroundDouble(s, k, doubles) ==
    IPv6OfGroups(k, doubles,
                 IPv6Groups(IF k = 0 THEN s ELSE SubSeq(s, 1, k - 1), k = 0),
                 IPv6Groups(IF k = 0 THEN <<>> ELSE SubSeq(s, k + 2, Len(s)), TRUE))

ParseIPv6(s) ==
    LET dc == {i \in 1..(Len(s) - 1) : s[i] = ":" /\ s[i + 1] = ":"}
    IN  IPv6AroundDouble(s, IF dc = {} THEN 0 ELSE MinOf(dc), Cardinality(dc))

\* length of the run of zero pieces starting at index i
RECURSIVE ZeroRun(_, _)
ZeroRun(pieces, i) ==
    IF i > Len(pieces) \/ pieces[i] # 0 THEN 0 ELSE 1 + ZeroRun(pieces, i + 1)

\* WHATWG "IPv6 serializer": lowercase hexadecimal, the first longest run of
\* two or more zero pieces compressed to "::"
SerializeIPv6(pieces) ==
    LET run == [i \in 1..8 |-> ZeroRun(pieces, i)]
        best == MaxOf({run[i] : i \in 1..8})
        at == MinOf({i \in 1..8 : run[i] = best})
        hex == [i \in 1..8 |-> NatToText(pieces[i], 16)]
    IN  IF best < 2 THEN Join(hex, <<":">>)
        ELSE Join(SubSeq(hex, 1, at - 1), <<":">>) \o <<":", ":">>
             \o Join(SubSeq(hex, at + best, 8), <<":">>)

\* code points a domain may not contain ('%' stands for percent-escapes, which
\* are outside the modelled inputs)
ForbiddenDomainCodePoints ==
    {" ", "#", "/", ":", "<", ">", "?", "@", "[", "\\", "]", "^", "|", "%", "\t", "\n"}

HostFailure == [ok |-> FALSE, host |-> <<>>]

\* WHATWG "host parser" for a special scheme: the serialised host, or failure
HostOfIPv6(a) ==
    IF a.ok THEN [ok |-> TRUE, host |-> <<"[">> \o SerializeIPv6(a.pieces) \o <<"]">>]
    ELSE HostFailure

HostOfIPv4(v4) ==
    IF v4.ok THEN [ok |-> TRUE, host |-> SerializeIPv4(v4.octets)] ELSE HostFailure

HostOfDomain(domain) ==
    IF domain = <<>> \/ \E i \in 1..Len(domain) : domain[i] \in ForbiddenDomainCodePoints
    THEN HostFailure
    ELSE IF EndsInNumber(domain) THEN HostOfIPv4(ParseIPv4(domain))
    ELSE [ok |-> TRUE, host |-> domain]

ParseHost(input) ==
    IF input # <<>> /\ input[1] = "["
    THEN IF input[Len(input)] # "]" THEN HostFailure
         ELSE HostOfIPv6(ParseIPv6(SubSeq(input, 2, Len(input) - 1)))
    ELSE HostOfDomain(toLowerCase(input))

\* code points an opaque (non-special scheme) host may not contain
ForbiddenHostCodePoints == ForbiddenDomainCodePoints \ {"%"}

\* WHATWG "opaque-host parser"
ParseOpaqueHost(input) ==
    IF \E i \in 1..Len(input) : input[i] \in ForbiddenHostCodePoints THEN HostFailure
    ELSE [ok |-> TRUE, host |-> input]

\* the host parser: a bracketed literal and the host of a special scheme go
\* through the host parser proper, any other host is opaque
ParseAnyHost(input, special) ==
    IF special \/ (input # <<>> /\ input[1] = "[") THEN ParseHost(input)
    ELSE ParseOpaqueHost(input)

SpecialSchemes ==
    {<<"h", "t", "t", "p">>, <<"h", "t", "t", "p", "s">>, <<"f", "t", "p">>,
     <<"w", "s">>, <<"w", "s", "s">>, <<"f", "i", "l", "e">>}

\* the default port of a special scheme, as text (none for file)
DefaultPort(scheme) ==
    CASE scheme = <<"h", "t", "t", "p">> -> <<"8", "0">>
      [] scheme = <<"w", "s">> -> <<"8", "0">>
      [] scheme = <<"h", "t", "t", "p", "s">> -> <<"4", "4", "3">>
      [] scheme = <<"w", "s", "s">> -> <<"4", "4", "3">>
      [] scheme = <<"f", "t", "p">> -> <<"2", "1">>
      [] OTHER -> <<>>

URLFailure == [ok |-> FALSE, protocol |-> <<>>, hostname |-> <<>>, href |-> <<>>]

\* the decimal value of a port text that fits 16 bits, as canonical text
PortText(portText) ==
    LET n == PadLimbs(ParseNat(portText, 10), 2) IN NatToText(n[1] * 256 + n[2], 10)

\* authority state, host state and port state: the text between the slashes
\* and the path, parsed to a host and an optional port
AuthorityOf(userinfo, hp, colon, scheme, special, host, port) ==
    IF (userinfo # <<>> /\ hp = <<>>)
       \/ (colon = 1 /\ (special \/ colon <= Len(hp)))
       \/ ~host.ok
       \/ ~(AllIn(port, Digits) /\ Len(ParseNat(port, 10)) <= 2)
    THEN [ok |-> FALSE, host |-> <<>>, text |-> <<>>]
    ELSE [ok |-> TRUE, host |-> host.host,
          text |-> userinfo \o host.host
                   \o (IF port = <<>> \/ PortText(port) = DefaultPort(scheme)
                       THEN <<>> ELSE <<":">> \o PortText(port))]

\* hp is the authority after its credentials; colon is where its port begins
HostAndPort(userinfo, hp, colon, scheme, special) ==
    AuthorityOf(userinfo, hp, colon, scheme, special,
                ParseAnyHost(SubSeq(hp, 1, colon - 1), special),
                SubSeq(hp, colon + 1, Len(hp)))

AfterCredentials(userinfo, hp, scheme, special) ==
    HostAndPort(userinfo, hp,
                IF scheme = <<"f", "i", "l", "e">> THEN Len(hp) + 1
                ELSE IF hp # <<>> /\ hp[1] = "["
                THEN FirstOf(hp, {":"}, FirstOf(hp, {"]"}, 1))
                ELSE FirstOf(hp, {":"}, 1),
                scheme, special)

\* authority state, host state and port state: the text between the slashes
\* and the path, parsed to a host and an optional port (a file URL has
\* neither credentials nor a port: its authority is all host)
ParseAuthority(auth, scheme, special) ==
    LET ats == IF scheme = <<"f", "i", "l", "e">> THEN {}
               ELSE {i \in 1..Len(auth) : auth[i] = "@"}
        last == IF ats = {} THEN 0 ELSE MaxOf(ats)
    IN  AfterCredentials(SubSeq(auth, 1, last), SubSeq(auth, last + 1, Len(auth)),
                         scheme, special)

IsSlash(c, special) == c = "/" \/ (special /\ c = "\\")

\* the path (and what follows it) as serialised: "/" for an empty path of a
\* special scheme, backslashes of a special scheme written as slashes
SerializePath(after, special) ==
    IF ~special THEN after
    ELSE IF after = <<>> \/ after[1] \in {"?", "#"} THEN <<"/">> \o after
    ELSE [i \in 1..Len(after) |-> IF after[i] = "\\" THEN "/" ELSE after[i]]

\* new URL(input) without a base: the parsed URL, or failure (a TypeError)
URLOf(scheme, rest, special, isFile, nSlash, authText, after, auth) ==
    LET driveLetter == isFile /\ Len(authText) = 2 /\ authText[1] \in Alpha
                       /\ authText[2] \in {":", "|"}
        hasAuthority == IF special /\ ~isFile THEN TRUE ELSE nSlash >= 2
        host == IF isFile /\ auth.host = <<"l", "o", "c", "a", "l", "h", "o", "s", "t">>
                THEN <<>> ELSE auth.host
    IN  IF ~hasAuthority
        THEN [ok |-> TRUE, protocol |-> scheme \o <<":">>, hostname |-> <<>>,
              href |-> scheme \o <<":">>
                       \o (IF isFile
                           THEN <<"/", "/">> \o (IF nSlash = 1 THEN rest ELSE <<"/">> \o rest)
                           ELSE rest)]
        ELSE IF isFile /\ (authText = <<>> \/ driveLetter)
        THEN [ok |-> TRUE, protocol |-> scheme \o <<":">>, hostname |-> <<>>,
              href |-> scheme \o <<":", "/", "/">>
                       \o (IF driveLetter THEN <<"/">> \o authText ELSE <<>>)
                       \o SerializePath(after, TRUE)]
        ELSE IF ~auth.ok THEN URLFailure
        ELSE [ok |-> TRUE, protocol |-> scheme \o <<":">>, hostname |-> host,
              href |-> scheme \o <<":", "/", "/">>
                       \o (IF isFile /\ host = <<>> THEN <<>> ELSE auth.text)
                       \o SerializePath(after, special)]

\* the authority runs from start to the first delimiter at stop
URLAuthority(scheme, rest, special, isFile, nSlash, start, stop) ==
    URLOf(scheme, rest, special, isFile, nSlash,
          SubSeq(rest, start, stop - 1), SubSeq(rest, stop, Len(rest)),
          ParseAuthority(SubSeq(rest, start, stop - 1), scheme, special))

URLSlashes(scheme, rest, special, isFile, nSlash, start) ==
    URLAuthority(scheme, rest, special, isFile, nSlash, start,
                 FirstOf(rest, IF special THEN {"/", "?", "#", "\\"} ELSE {"/", "?", "#"}, start))

\* rest is what follows the scheme and its colon
URLAfterScheme(scheme, rest, special, isFile) ==
    LET slashes == {i \in 1..Len(rest) : \A j \in 1..i : IsSlash(rest[j], special)}
        nSlash == IF slashes = {} THEN 0 ELSE MaxOf(slashes)
    IN  URLSlashes(scheme, rest, special, isFile, nSlash,
                   IF special /\ ~isFile THEN nSlash + 1 ELSE 3)

URLScheme(s, k) ==
    LET schemeText == SubSeq(s, 1, k - 1)
        scheme == toLowerCase(SubSeq(s, 1, k - 1))
    IN  IF k > Len(s) \/ schemeText = <<>> \/ schemeText[1] \notin Alpha
           \/ ~AllIn(schemeText, Alpha \cup Digits \cup {"+", "-", "."})
        THEN URLFailure
        ELSE URLAfterScheme(scheme, SubSeq(s, k + 1, Len(s)), scheme \in SpecialSchemes,
                            scheme = <<"f", "i", "l", "e">>)

URLStripped(s) == URLScheme(s, FirstOf(s, {":"}, 1))

\* new URL(input) without a base: the parsed URL, or failure (a TypeError)
URLParse(input) == URLStripped(SelectSeq(trim(input), LAMBDA c : c \notin {"\t", "\n"}))

(***************************************************************************)
(* JavaScript values crossing the IPC boundary, and thrown errors          *)
(*   t = "number": a finite number, n its value in hundredths              *)
(*   t = "nan", "inf", "ninf": NaN, Infinity, -Infinity (typeof "number")  *)
(*   t = "boolean": n = 1 for true, 0 for false                            *)
(***************************************************************************)
Undefined == [s |-> <<>>, n |-> 0, t |-> "undefined"]

Null == [s |-> <<>>, n |-> 0, t |-> "null"]

Str(s) == [s |-> s, n |-> 0, t |-> "string"]

\* the finite number h / 100
Num(h) == [s |-> <<>>, n |-> h, t |-> "number"]

NaN == [s |-> <<>>, n |-> 0, t |-> "nan"]

Infinity == [s |-> <<>>, n |-> 0, t |-> "inf"]

NegInfinity == [s |-> <<>>, n |-> 0, t |-> "ninf"]

Bool(b) == [s |-> <<>>, n |-> IF b THEN 1 ELSE 0, t |-> "boolean"]

\* ToBoolean(v)
Truthy(v) ==
    CASE v.t = "string" -> v.s # <<>>
      [] v.t = "number" -> v.n # 0
      [] v.t = "boolean" -> v.n = 1
      [] v.t \in {"inf", "ninf"} -> TRUE
      [] OTHER -> FALSE

\* a returned value, or a thrown Error with its message
Return(v) == [ok |-> TRUE, value |-> v, error |-> ""]

Throw(msg) == [ok |-> FALSE, value |-> <<>>, error |-> msg]

(***************************************************************************)
(* URL validation (SSRF guard)                                             *)
(***************************************************************************)
MAX_URL_LENGTH == 2048

\* net.isIP(h) === 4: four decimal octets, no leading zeros, each at most 255
IsIPv4Text(h) ==
    LET parts == split(h, ".")
    IN  /\ Len(parts) = 4
        /\ \A i \in 1..4 : IsIPv6DecimalPiece(parts[i])

\* ToInt32 of a natural below 2^32 given by its four limbs
ToInt32(limbs) ==
    LET b == PadLimbs(limbs, 4)
        low == b[2] * 65536 + b[3] * 256 + b[4]
    IN  IF b[1] >= 128 THEN (b[1] - 256) * 16777216 + low ELSE b[1] * 16777216 + low

\* (x >> k) without the & 0xff mask
ShiftRightByte_Unmasked(x, k) == x \div (2 ^ k)

\* (x >> k) & 0xff on a 32-bit signed x: arithmetic shift, then the low byte
ShiftRightByte(x, k) == (x \div (2 ^ k)) % 256

PrivateOrLoopbackOctets(a, b) ==
    \/ a = 127
    \/ a = 10
    \/ (a = 172 /\ b >= 16 /\ b <= 31)
    \/ (a = 192 /\ b = 168)

isLoopbackOrPrivateIP(hostname) ==
    LET h == toLowerCase(hostname) IN
    IF hostname = <<>> THEN FALSE
    ELSE IF IsIPv4Text(h)
    THEN LET parts == [i \in 1..4 |-> SmallNat(split(h, ".")[i], 10)]
         IN  \/ PrivateOrLoopbackOctets(parts[1], parts[2])
             \/ (parts[1] = 0 /\ parts[2] = 0 /\ parts[3] = 0 /\ parts[4] = 0)
    ELSE IF AllIn(h, Digits)
    THEN LET limbs == ParseNat(h, 10)
             num == ToInt32(limbs)
             a == ShiftRightByte(num, 24)
             b == ShiftRightByte(num, 16)
         IN  IF Len(limbs) > 4 THEN FALSE
             ELSE \/ PrivateOrLoopbackOctets(a, b)
                  \/ (a = 0 /\ b = 0 /\ ShiftRightByte(num, 8) = 0
                      /\ ShiftRightByte(num, 0) = 0)
    ELSE \/ h = <<":", ":", "1">>
         \/ h = <<"[", ":", ":", "1", "]">>
         \/ startsWith(h, <<":", ":", "f", "f", "f", "f", ":", "1", "2", "7", ".">>)
         \/ startsWith(h, <<":", ":", "f", "f", "f", "f", ":", "0", "x", "7", "f">>)
         \/ startsWith(h, <<":", ":", "f", "f", "f", "f", ":", "7", "f">>)

\* the block list without its 'localhost' entry
blockedHosts_NoLocalhost ==
    {<<"1", "2", "7", ".", "0", ".", "0", ".", "1">>,
     <<"0", ".", "0", ".", "0", ".", "0">>,
     <<":", ":", "1">>,
     <<"[", ":", ":", "1", "]">>}

blockedHosts ==
    {<<"l", "o", "c", "a", "l", "h", "o", "s", "t">>,
     <<"1", "2", "7", ".", "0", ".", "0", ".", "1">>,
     <<"0", ".", "0", ".", "0", ".", "0">>,
     <<":", ":", "1">>,
     <<"[", ":", ":", "1", "]">>}

\* /^10\.|^172\.(1[6-9]|2\d|3[01])\.|^192\.168\./i
MatchesPrivatePattern(hostname) ==
    \/ startsWith(hostname, <<"1", "0", ".">>)
    \/ /\ startsWith(hostname, <<"1", "7", "2", ".">>)
       /\ Len(hostname) >= 7
       /\ hostname[7] = "."
       /\ \/ (hostname[5] = "1" /\ hostname[6] \in {"6", "7", "8", "9"})
          \/ (hostname[5] = "2" /\ hostname[6] \in Digits)
          \/ (hostname[5] = "3" /\ hostname[6] \in {"0", "1"})
    \/ startsWith(hostname, <<"1", "9", "2", ".", "1", "6", "8", ".">>)

\* returning the re-serialised parsed.href instead of the trimmed input
ValidateParsedUrl_ReturnsHref(trimmed, parsed) ==
    LET hostname == parsed.hostname
    IN  IF ~parsed.ok THEN Throw("Invalid URL")
        ELSE IF parsed.protocol # <<"h", "t", "t", "p", ":">>
                /\ parsed.protocol # <<"h", "t", "t", "p", "s", ":">>
        THEN Throw("Only HTTP and HTTPS URLs are allowed")
        ELSE IF toLowerCase(hostname) \in blockedHosts
        THEN Throw("Localhost URLs are not allowed")
        ELSE IF MatchesPrivatePattern(hostname)
        THEN Throw("Private network URLs are not allowed")
        ELSE IF isLoopbackOrPrivateIP(hostname)
        THEN Throw("Localhost and private network URLs are not allowed")
        ELSE Return(parsed.href)

\* the host rules applied before the scheme rule
ValidateParsedUrl_HostFirst(trimmed, parsed) ==
    LET hostname == parsed.hostname
    IN  IF ~parsed.ok THEN Throw("Invalid URL")
        ELSE IF toLowerCase(hostname) \in blockedHosts
        THEN Throw("Localhost URLs are not allowed")
        ELSE IF MatchesPrivatePattern(hostname)
        THEN Throw("Private network URLs are not allowed")
        ELSE IF isLoopbackOrPrivateIP(hostname)
        THEN Throw("Localhost and private network URLs are not allowed")
        ELSE IF parsed.protocol # <<"h", "t", "t", "p", ":">>
                /\ parsed.protocol # <<"h", "t", "t", "p", "s", ":">>
        THEN Throw("Only HTTP and HTTPS URLs are allowed")
        ELSE Return(trimmed)

\* the numeric host rule applied before the listed host names
ValidateParsedUrl_NumericFirst(trimmed, parsed) ==
    LET hostname == parsed.hostname
    IN  IF ~parsed.ok THEN Throw("Invalid URL")
        ELSE IF parsed.protocol # <<"h", "t", "t", "p", ":">>
                /\ parsed.protocol # <<"h", "t", "t", "p", "s", ":">>
        THEN Throw("Only HTTP and HTTPS URLs are allowed")
        ELSE IF isLoopbackOrPrivateIP(hostname)
        THEN Throw("Localhost and private network URLs are not allowed")
        ELSE IF toLowerCase(hostname) \in blockedHosts
        THEN Throw("Localhost URLs are not allowed")
        ELSE IF MatchesPrivatePattern(hostname)
        THEN Throw("Private network URLs are not allowed")
        ELSE Return(trimmed)

\* validateUrl after the length check, parsed being new URL(trimmed):
\* scheme rule, then the host rules
ValidateParsedUrl(trimmed, parsed) ==
    LET hostname == parsed.hostname
    IN  IF ~parsed.ok THEN Throw("Invalid URL")
        ELSE IF parsed.protocol # <<"h", "t", "t", "p", ":">>
                /\ parsed.protocol # <<"h", "t", "t", "p", "s", ":">>
        THEN Throw("Only HTTP and HTTPS URLs are allowed")
        ELSE IF toLowerCase(hostname) \in blockedHosts
        THEN Throw("Localhost URLs are not allowed")
        ELSE IF MatchesPrivatePattern(hostname)
        THEN Throw("Private network URLs are not allowed")
        ELSE IF isLoopbackOrPrivateIP(hostname)
        THEN Throw("Localhost and private network URLs are not allowed")
        ELSE Return(trimmed)

\* the length rule applied only after the parse and host rules
validateUrl_LengthLast(input) ==
    IF ~Truthy(input) \/ input.t # "string" THEN Throw("URL is required")
    ELSE LET trimmed == trim(input.s)
             r == ValidateParsedUrl(trimmed, URLParse(trimmed))
         IN  IF trimmed = <<>> THEN Throw("URL is required")
             ELSE IF ~r.ok THEN r
             ELSE IF Len(trimmed) > MAX_URL_LENGTH THEN Throw("URL is too long")
             ELSE r

validateUrl(input) ==
    IF ~Truthy(input) \/ input.t # "string" THEN Throw("URL is required")
    ELSE LET trimmed == trim(input.s)
         IN  IF trimmed = <<>> THEN Throw("URL is required")
             ELSE IF Len(trimmed) > MAX_URL_LENGTH THEN Throw("URL is too long")
             ELSE ValidateParsedUrl(trimmed, URLParse(trimmed))

(***************************************************************************)
(* The development server's /api/video-info (vite.config.mts)              *)
(***************************************************************************)
\* the characters of codes 32 to 95
AsciiLow ==
    <<" ", "!", "\"", "#", "$", "%", "&", "'", "(", ")", "*", "+", ",", "-", ".", "/",
      "0", "1", "2", "3", "4", "5", "6", "7", "8", "9", ":", ";", "<", "=", ">", "?",
      "@", "A", "B", "C", "D", "E", "F", "G", "H", "I", "J", "K", "L", "M", "N", "O",
      "P", "Q", "R", "S", "T", "U", "V", "W", "X", "Y", "Z", "[", "\\", "]", "^", "_">>

\* the characters of codes 97 to 126
AsciiHigh ==
    <<"a", "b", "c", "d", "e", "f", "g", "h", "i", "j", "k", "l", "m", "n", "o", "p",
      "q", "r", "s", "t", "u", "v", "w", "x", "y", "z", "{", "|", "}", "~">>

HexValue(c) == DigitValue(LowerChar(c))

EscapeCode(s) == 16 * HexValue(s[2]) + HexValue(s[3])

\* decodeURIComponent of a text with escapes: each %XY that stands for one
\* character of AsciiLow or AsciiHigh is replaced by it; an escape that is
\* cut short or not hexadecimal, or a byte that begins no character (a lone
\* byte of 128 or more), is a URIError. The texts drawn hold no other
\* escapes.
RECURSIVE DecodeEscapes(_, _)
DecodeEscapes(s, acc) ==
    IF s = <<>> THEN Return(acc)
    ELSE IF s[1] # "%" THEN DecodeEscapes(Tail(s), Append(acc, s[1]))
    ELSE IF Len(s) < 3 \/ s[2] \notin HexDigits \/ s[3] \notin HexDigits
    THEN Throw("URIError")
    ELSE IF EscapeCode(s) \in 32..95
    THEN DecodeEscapes(SubSeq(s, 4, Len(s)), Append(acc, AsciiLow[EscapeCode(s) - 31]))
    ELSE IF EscapeCode(s) \in 97..126
    THEN DecodeEscapes(SubSeq(s, 4, Len(s)), Append(acc, AsciiHigh[EscapeCode(s) - 96]))
    ELSE Throw("URIError")

decodeURIComponent(s) ==
    IF \A i \in 1..Len(s) : s[i] # "%" THEN Return(s)
    ELSE DecodeEscapes(s, <<>>)

\* the checks inside the try block: url is what the probe would be given
VideoInfoApiChecks(url, parsedUrl) ==
    IF ~parsedUrl.ok THEN Throw("Invalid URL")
    ELSE IF parsedUrl.protocol # <<"h", "t", "t", "p", ":">>
            /\ parsedUrl.protocol # <<"h", "t", "t", "p", "s", ":">>
    THEN Throw("Only HTTP and HTTPS URLs are allowed")
    ELSE IF toLowerCase(parsedUrl.hostname) \in blockedHosts
    THEN Throw("Localhost URLs are not allowed")
    ELSE IF MatchesPrivatePattern(toLowerCase(parsedUrl.hostname))
    THEN Throw("Private network URLs are not allowed")
    ELSE Return(url)

VideoInfoApiDecoded(decoded) ==
    IF ~decoded.ok THEN decoded
    ELSE VideoInfoApiChecks(decoded.value, URLParse(decoded.value))

\* the middleware on /api/video-info, rawUrl being the `url` parameter of
\* the query (Null when there is none): the response that refuses, the
\* URIError it throws, or the URL it goes on to probe
videoInfoApi(rawUrl) ==
    IF ~Truthy(rawUrl) \/ trim(rawUrl.s) = <<>> THEN Throw("URL is required")
    ELSE VideoInfoApiDecoded(decodeURIComponent(trim(rawUrl.s)))

(***************************************************************************)
(* Download parameter validation                                           *)
(***************************************************************************)
MAX_DURATION_SECONDS == 604800

\* the value of a natural of at most three limbs
LimbsToInt(limbs) ==
    LET b == PadLimbs(limbs, 3) IN b[1] * 65536 + b[2] * 256 + b[3]

\* a finite number above every bound of the program (hundredths); stands for
\* every literal of more than seven integer digits
HugeHundredths == MAX_DURATION_SECONDS * 100 * 30

\* the hundredths written by an unsigned decimal literal "ddd", "ddd.dd",
\* "ddd." or ".dd" (fraction digits after the second are not represented);
\* -1 when the text is no decimal literal
DecimalHundredths(body) ==
    LET parts == split(body, ".")
        ip == parts[1]
        fp == IF Len(parts) = 2 THEN parts[2] ELSE <<>>
        frac == SubSeq(fp \o <<"0", "0">>, 1, 2)
        limbs == ParseNat(ip, 10)
    IN  IF Len(parts) > 2 \/ ~AllIn(ip, Digits) \/ ~AllIn(fp, Digits)
           \/ (ip = <<>> /\ fp = <<>>)
        THEN -1
        ELSE IF Len(limbs) > 3 \/ LimbsToInt(limbs) > 9999999 THEN HugeHundredths
        ELSE LimbsToInt(limbs) * 100 + SmallNat(frac, 10)

\* Number(string): StringToNumber for decimal literals and Infinity
SignedNumber(t, body, negative, h) ==
    IF t = <<>> THEN Num(0)
    ELSE IF body = <<"I", "n", "f", "i", "n", "i", "t", "y">>
    THEN IF negative THEN NegInfinity ELSE Infinity
    ELSE IF h < 0 THEN NaN
    ELSE Num(IF negative THEN 0 - h ELSE h)

SignedText(t, body) ==
    SignedNumber(t, body, t # <<>> /\ t[1] = "-", DecimalHundredths(body))

TrimmedToNumber(t) ==
    SignedText(t, IF t # <<>> /\ t[1] \in {"+", "-"} THEN Tail(t) ELSE t)

StringToNumber(s) == TrimmedToNumber(trim(s))

\* Number(value)
ToNumber(v) ==
    CASE v.t = "undefined" -> NaN
      [] v.t = "null" -> Num(0)
      [] v.t = "boolean" -> Num(v.n * 100)
      [] v.t = "string" -> StringToNumber(v.s)
      [] OTHER -> v

\* x < c and x > c for a JavaScript number x and a finite c (hundredths);
\* every comparison with NaN is false
NumLess(x, c) == x.t = "ninf" \/ (x.t = "number" /\ x.n < c)

NumGreater(x, c) == x.t = "inf" \/ (x.t = "number" /\ x.n > c)

\* startVal !== undefined && startVal !== null && startVal !== ''
TimePresent(v) == v.t # "undefined" /\ v.t # "null" /\ v # Str(<<>>)

\* the range test without its upper bound
TimeOutOfRange_NoCap(s) == s.t = "nan" \/ NumLess(s, 0)

\* Number.isNaN(s) || s < 0 || s > MAX_DURATION_SECONDS
TimeOutOfRange(s) ==
    s.t = "nan" \/ NumLess(s, 0) \/ NumGreater(s, MAX_DURATION_SECONDS * 100)

\* the presence test without its exception for the number 1
SpeedPresent_KeepsOne(v) == v.t # "undefined" /\ v.t # "null"

\* speedVal !== undefined && speedVal !== null && speedVal !== 1
SpeedPresent(v) == v.t # "undefined" /\ v.t # "null" /\ v # Num(100)

\* Number.isNaN(p) || p < 0.25 || p > 4
SpeedOutOfRange(p) == p.t = "nan" \/ NumLess(p, 25) \/ NumGreater(p, 400)

\* validateDownloadParams: an absent field of the output object is Undefined
ValidatedParams(params, s, e, p) ==
    IF TimePresent(params.startTime) /\ TimeOutOfRange(s)
    THEN Throw("Invalid start time")
    ELSE IF TimePresent(params.endTime) /\ TimeOutOfRange(e)
    THEN Throw("Invalid end time")
    ELSE IF SpeedPresent(params.playbackSpeed) /\ SpeedOutOfRange(p)
    THEN Throw("Playback speed must be between 0.25 and 4")
    ELSE Return([startTime |-> IF TimePresent(params.startTime) THEN s ELSE Undefined,
                 endTime |-> IF TimePresent(params.endTime) THEN e ELSE Undefined,
                 playbackSpeed |-> IF SpeedPresent(params.playbackSpeed)
                                   THEN p ELSE Undefined])

validateDownloadParams(params) ==
    ValidatedParams(params, ToNumber(params.startTime), ToNumber(params.endTime),
                    ToNumber(params.playbackSpeed))

(***************************************************************************)
(* Filename sanitising                                                     *)
(***************************************************************************)
\* the character class without the backslash
IllegalFilenameChars_NoBackslash == {"<", ">", ":", "\"", "/", "|", "?", "*"}

\* [<>:"/\\|?*]
IllegalFilenameChars == {"<", ">", ":", "\"", "/", "\\", "|", "?", "*"}

\* .replace(/\s+/g, ' '): every run of white space becomes one space
CollapseWhiteSpace(s) ==
    LET keep == {i \in 1..Len(s) : ~IsWhiteSpace(s[i]) \/ i = 1 \/ ~IsWhiteSpace(s[i - 1])}
        kept == SelectSeq([i \in 1..Len(s) |-> IF i \in keep THEN <<s[i]>> ELSE <<>>],
                          LAMBDA x : x # <<>>)
    IN  [i \in 1..Len(kept) |-> IF IsWhiteSpace(kept[i][1]) THEN " " ELSE kept[i][1]]

MAX_FILENAME_LENGTH == 200

\* String.prototype.substring(0, n)
Prefix(s, n) == SubSeq(s, 1, IF Len(s) < n THEN Len(s) ELSE n)

txtAudio == <<"a", "u", "d", "i", "o">>

sanitizeFilename(title) ==
    IF ~Truthy(title) \/ title.t # "string" THEN txtAudio
    ELSE LET stripped == SelectSeq(title.s, LAMBDA c : c \notin IllegalFilenameChars)
             cut == Prefix(trim(CollapseWhiteSpace(stripped)), MAX_FILENAME_LENGTH)
         IN  IF cut = <<>> THEN txtAudio ELSE cut

(***************************************************************************)
(* Paths (path.posix of Node) and the local path validator                 *)
(***************************************************************************)
\* the segments of a path after resolving "." and "..", left to right;
\* above the start ".." is kept for a relative path and dropped for an
\* absolute one
RECURSIVE NormalizeSegments(_, _, _)
NormalizeSegments(segs, acc, absolute) ==
    IF segs = <<>> THEN acc
    ELSE LET s == Head(segs)
             up == <<".", ".">>
         IN  IF s = <<>> \/ s = <<".">> THEN NormalizeSegments(Tail(segs), acc, absolute)
             ELSE IF s = up
             THEN IF acc # <<>> /\ acc[Len(acc)] # up
                  THEN NormalizeSegments(Tail(segs), SubSeq(acc, 1, Len(acc) - 1), absolute)
                  ELSE IF absolute THEN NormalizeSegments(Tail(segs), acc, absolute)
                  ELSE NormalizeSegments(Tail(segs), Append(acc, s), absolute)
             ELSE NormalizeSegments(Tail(segs), Append(acc, s), absolute)

IsAbsolutePath(p) == p # <<>> /\ p[1] = "/"

\* path.normalize
PathNormalize(p) ==
    LET absolute == IsAbsolutePath(p)
        body == Join(NormalizeSegments(split(p, "/"), <<>>, absolute), <<"/">>)
        trailing == p # <<>> /\ p[Len(p)] = "/"
    IN  IF p = <<>> THEN <<".">>
        ELSE IF body = <<>> THEN (IF absolute THEN <<"/">> ELSE IF trailing THEN <<".", "/">> ELSE <<".">>)
        ELSE (IF absolute THEN <<"/">> ELSE <<>>) \o body \o (IF trailing THEN <<"/">> ELSE <<>>)

\* the working directory of the main process
Cwd == <<"/">>

\* path.resolve of one path: absolute, normalised, no trailing slash
PathResolve(p) ==
    LET full == IF IsAbsolutePath(p) THEN p ELSE Cwd \o <<"/">> \o p
    IN  <<"/">> \o Join(NormalizeSegments(split(full, "/"), <<>>, TRUE), <<"/">>)

\* the last segment of a path, trailing slashes ignored
LastSegment(p) ==
    LET segs == SelectSeq(split(p, "/"), LAMBDA s : s # <<>>)
    IN  IF segs = <<>> THEN <<>> ELSE segs[Len(segs)]

\* path.extname
PathExtname(p) ==
    LET base == LastSegment(p)
        dots == {i \in 1..Len(base) : base[i] = "."}
        k == IF dots = {} THEN 0 ELSE MaxOf(dots)
    IN  IF k <= 1 \/ base = <<".", ".">> THEN <<>> ELSE SubSeq(base, k, Len(base))

\* path.basename(p, ext)
PathBasename(p, ext) ==
    LET base == LastSegment(p)
    IN  IF ext # <<>> /\ Len(ext) < Len(base)
           /\ SubSeq(base, Len(base) - Len(ext) + 1, Len(base)) = ext
        THEN SubSeq(base, 1, Len(base) - Len(ext))
        ELSE base

\* path.join(dir, name) for a normalised dir and a plain name
PathJoin(dir, name) ==
    IF dir = <<>> THEN PathNormalize(name) ELSE PathNormalize(dir \o <<"/">> \o name)

(***************************************************************************)
(* State                                                                   *)
(***************************************************************************)
VARIABLES
    urlParts,     \* the pieces the argument of validateUrl is written from
    urlResult,    \* what validateUrl returned or threw for it
    apiResult,    \* what the dev server's /api/video-info did with the same text
    dpInput,      \* the argument of validateDownloadParams
    dpResult,     \* what validateDownloadParams returned or threw for it
    sfInput,      \* the pieces the argument of sanitizeFilename is written from
    sfResult,     \* what sanitizeFilename returned for it
    sfAgain,      \* what sanitizeFilename returned for that result
    lpInput,      \* the argument of validateLocalFilePath
    lpResult,     \* what validateLocalFilePath returned or threw for it
    afInput,      \* the playback speed of a job's validated parameters
    afResult,     \* the filter chain the transcoder was given for it
    platform,     \* process.platform
    isDev,        \* NODE_ENV is development or dist/index.html is missing
    appState,     \* "starting", "ready" or "quit"
    ytDlpWrap,    \* TRUE once the downloader wrapper has been constructed
    tempDir,      \* the module variable tempDir, '' until startup sets it
    activateHandler, \* TRUE once app.on('activate') has been registered
    mainWindow,   \* the module variable mainWindow: a surface or NoWindow
    surfaces,     \* the web contents of the application: open?, location
    now,          \* Date.now()
    files,        \* the file system: entries with path, kind and mtime
    calls,        \* the IPC calls made so far, each with its progress
    wizard,       \* the React state of App: what setState has made of it
    rendered,     \* the state of the last render, which the handlers close over
    pending       \* the debounce timer, the requests and the download in flight

validatorVars == <<urlParts, urlResult, apiResult, dpInput, dpResult, sfInput, sfResult, sfAgain,
                   lpInput, lpResult, afInput, afResult>>

appVars == <<platform, isDev, appState, ytDlpWrap, tempDir, activateHandler,
             mainWindow, surfaces, now, files, calls>>

vars == <<urlParts, urlResult, apiResult, dpInput, dpResult, sfInput, sfResult, sfAgain,
          lpInput, lpResult, afInput, afResult, platform, isDev, appState,
          ytDlpWrap, tempDir, activateHandler, mainWindow, surfaces, now, files, calls,
          wizard, rendered, pending>>

uiVars == <<wizard, rendered, pending>>

\* a call that has not been made yet
Pending == [ok |-> FALSE, value |-> <<>>, error |-> "pending"]

(***************************************************************************)
(* Arguments of validateUrl                                                *)
(*   white space, scheme, separator, host, path filler, white space        *)
(* The host is a name (or bracketed literal) given as text, or an IPv4     *)
(* address given by its octets and written dotted or as one decimal        *)
(* integer.                                                                *)
(***************************************************************************)
\* quotient and remainder of big-endian limbs by a small divisor
RECURSIVE DivLimbs(_, _, _)
DivLimbs(limbs, d, rem) ==
    IF limbs = <<>> THEN [q |-> <<>>, r |-> rem]
    ELSE LET cur == rem * 256 + Head(limbs)
             rest == DivLimbs(Tail(limbs), d, cur % d)
         IN  [q |-> <<cur \div d>> \o rest.q, r |-> rest.r]

\* decimal text of a natural given by its limbs
RECURSIVE LimbsToDecimal(_)
LimbsToDecimal(limbs) ==
    LET dm == DivLimbs(limbs, 10, 0)
    IN  IF \A i \in 1..Len(dm.q) : dm.q[i] = 0 THEN <<DigitChar(dm.r)>>
        ELSE LimbsToDecimal(dm.q) \o <<DigitChar(dm.r)>>

HostText(u) ==
    CASE u.hostForm = "dotted" -> SerializeIPv4(u.octets)
      [] u.hostForm = "decimal" -> LimbsToDecimal(u.octets)
      [] OTHER -> u.name

PathFiller(n) == IF n = 0 THEN <<>> ELSE <<"/">> \o Repeat("a", n - 1)

\* the text between the white space
UrlCore(u) == u.scheme \o u.sep \o HostText(u) \o PathFiller(u.fill)

UrlText(u) == Repeat(" ", u.lead) \o UrlCore(u) \o Repeat(" ", u.trail)

\* the JavaScript value passed: the string, or a non-string when kind says so
UrlArgument(u) ==
    CASE u.kind = "undefined" -> Undefined
      [] u.kind = "number" -> Num(500)
      [] OTHER -> Str(UrlText(u))

\* bounds of the arguments drawn
MaxPad == 2          \* white space characters before and after the text

MaxOver == 1         \* how far the longest text exceeds MAX_URL_LENGTH

OctetRadius == 1     \* octets this close to a range boundary are drawn

UpperOf(c) ==
    IF c \in LowerAlpha THEN CHOOSE u \in UpperAlpha : UpperToLower[u] = c ELSE c

\* every way of writing s in upper and lower case letters
RECURSIVE CaseVariants(_)
CaseVariants(s) ==
    IF s = <<>> THEN {<<>>}
    ELSE {<<c>> \o r : c \in {Head(s), UpperOf(Head(s))}, r \in CaseVariants(Tail(s))}

txtHttp == <<"h", "t", "t", "p">>

txtHttps == <<"h", "t", "t", "p", "s">>

txtSlashes == <<":", "/", "/">>

txtExample == <<"e", "x", "a", "m", "p", "l", "e", ".", "c", "o", "m">>

txtLocalhost == <<"l", "o", "c", "a", "l", "h", "o", "s", "t">>

\* the loopback names of the documentation (SECURITY.md, spec section 8)
LoopbackNames ==
    {txtLocalhost,
     <<"1", "2", "7", ".", "0", ".", "0", ".", "1">>,
     <<"0", ".", "0", ".", "0", ".", "0">>,
     <<":", ":", "1">>,
     <<"[", ":", ":", "1", "]">>}

\* octets at most OctetRadius away from a boundary of a private or loopback range
BoundaryOctets == {0, 10, 16, 31, 127, 168, 172, 192, 255}

SampledOctets ==
    {o \in 0..255 : \E b \in BoundaryOctets : o - b <= OctetRadius /\ b - o <= OctetRadius}

SampledAddresses ==
    {<<a, b, cd[1], cd[2]>> : a \in SampledOctets, b \in SampledOctets,
                              cd \in {<<0, 0>>, <<0, 1>>, <<255, 254>>}}

\* IPv4-mapped IPv6 literals: loopback ones and a public one
MappedLoopbackLiterals ==
    {<<"[", ":", ":", "f", "f", "f", "f", ":", "1", "2", "7", ".", "0", ".", "0", ".", "1", "]">>,
     <<"[", ":", ":", "F", "F", "F", "F", ":", "1", "2", "7", ".", "0", ".", "0", ".", "1", "]">>,
     <<"[", ":", ":", "f", "f", "f", "f", ":", "1", "2", "7", ".", "1", ".", "2", ".", "3", "]">>,
     <<"[", ":", ":", "f", "f", "f", "f", ":", "7", "f", "0", "0", ":", "1", "]">>,
     <<"[", "0", ":", "0", ":", "0", ":", "0", ":", "0", ":", "f", "f", "f", "f", ":",
       "7", "f", "0", "0", ":", "1", "]">>}

OtherIPv6Literals ==
    {<<"[", ":", ":", "f", "f", "f", "f", ":", "8", ".", "8", ".", "8", ".", "8", "]">>,
     <<"[", "2", "0", "0", "1", ":", "d", "b", "8", ":", ":", "1", "]">>,
     <<"[", "0", ":", "0", ":", "0", ":", "0", ":", "0", ":", "0", ":", "0", ":", "1", "]">>,
     <<"[", ":", ":", "1">>}

OtherSchemes ==
    {<<"f", "t", "p">>, <<"F", "T", "P">>, <<"f", "i", "l", "e">>, <<"w", "s">>,
     <<"j", "a", "v", "a", "s", "c", "r", "i", "p", "t">>, <<"h", "t", "t", "p", "x">>}

UrlArg(kind, lead, scheme, sep, hostForm, octets, name, fill, trail) ==
    [kind |-> kind, lead |-> lead, scheme |-> scheme, sep |-> sep, hostForm |-> hostForm,
     octets |-> octets, name |-> name, fill |-> fill, trail |-> trail]

NoOctets == <<0, 0, 0, 0>>

\* http://<loopback name in any letter case>
LoopbackNameArgs ==
    {UrlArg("string", 0, txtHttp, txtSlashes, "name", NoOctets, n, fill, 0) :
        n \in UNION {CaseVariants(b) : b \in LoopbackNames}, fill \in {0, 1}}

\* IPv4 hosts, dotted and as one decimal integer
IPv4Args ==
    {UrlArg("string", 0, s, txtSlashes, f, o, <<>>, fill, 0) :
        s \in {txtHttp, txtHttps}, f \in {"dotted", "decimal"}, o \in SampledAddresses,
        fill \in {0, 2}}

\* https and a dotted IPv4 host between white space
PaddedArgs ==
    {UrlArg("string", lead, s, txtSlashes, "dotted", o, <<>>, fill, trail) :
        lead \in 0..MaxPad, trail \in 0..MaxPad, s \in {txtHttps, <<"H", "T", "T", "P", "S">>},
        o \in {<<93, 184, 216, 34>>, <<8, 8, 8, 8>>, <<172, 32, 0, 1>>, <<10, 0, 0, 1>>},
        fill \in {0, 1, 3}}

IPv6Args ==
    {UrlArg("string", 0, s, txtSlashes, "name", NoOctets, n, fill, 0) :
        s \in {txtHttp, txtHttps}, n \in MappedLoopbackLiterals \cup OtherIPv6Literals,
        fill \in {0, 1}}

\* other schemes, with and without an authority
SchemeArgs ==
    {UrlArg("string", lead, s, sep, "name", NoOctets, n, fill, 0) :
        lead \in {0, 1}, s \in OtherSchemes \cup {txtHttp, txtHttps},
        sep \in {txtSlashes, <<":">>},
        n \in {txtExample, txtLocalhost, <<>>, <<"1", "0", ".", "0", ".", "0", ".", "1">>},
        fill \in {0, 1, 4}}

\* texts whose length is around MAX_URL_LENGTH, and short texts made long by
\* white space alone
LongArgs ==
    {UrlArg("string", lead, c[1], c[2], "name", NoOctets, c[3],
            MAX_URL_LENGTH + over - Len(c[1] \o c[2] \o c[3]), trail) :
        lead \in {0, 1}, trail \in {0, MaxPad},
        c \in {<<txtHttps, txtSlashes, txtExample>>, <<<<"f", "t", "p">>, txtSlashes, txtExample>>,
               <<txtHttp, txtSlashes, txtLocalhost>>, <<<<>>, <<>>, <<"a", "a">>>>},
        over \in (0 - 1)..MaxOver}
    \cup
    {UrlArg("string", lead, c[1], c[2], "name", NoOctets, c[3], fill, trail) :
        lead \in {0, MAX_URL_LENGTH + MaxOver}, trail \in {0, MAX_URL_LENGTH + MaxOver},
        c \in {<<txtHttps, txtSlashes, txtExample>>, <<<<"f", "t", "p">>, txtSlashes, txtExample>>,
               <<<<>>, <<>>, <<>>>>, <<<<>>, <<>>, <<"a", "a">>>>},
        fill \in {0, 3}}

OtherArgs ==
    {UrlArg(k, 0, <<>>, <<>>, "name", NoOctets, <<>>, 0, 0) : k \in {"undefined", "number", "string"}}

UrlArgs ==
    LoopbackNameArgs \cup IPv4Args \cup PaddedArgs \cup IPv6Args \cup SchemeArgs
    \cup LongArgs \cup OtherArgs

(***************************************************************************)
(* Arguments of validateDownloadParams                                     *)
(***************************************************************************)
\* finite numbers around the bounds of a time, in hundredths
TimeNumbers ==
    {Num(h) : h \in {0 - 100, 0 - 1, 0, 1, 500, 1000,
                     MAX_DURATION_SECONDS * 100 - 1, MAX_DURATION_SECONDS * 100,
                     MAX_DURATION_SECONDS * 100 + 1, MAX_DURATION_SECONDS * 100 + 100}}

TimeValues ==
    TimeNumbers
    \cup {Undefined, Null, NaN, Infinity, NegInfinity, Bool(TRUE)}
    \cup {Str(s) : s \in {<<>>, <<" ">>, <<"5">>, <<"1", ".", "5">>, <<"-", "1">>,
                          <<"a", "b", "c">>, <<"6", "0", "4", "8", "0", "0">>,
                          <<"6", "0", "4", "8", "0", "1">>,
                          <<"I", "n", "f", "i", "n", "i", "t", "y">>}}

SpeedValues ==
    {Num(h) : h \in {0, 24, 25, 26, 49, 50, 99, 100, 101, 150, 200, 201, 400, 401}}
    \cup {Undefined, Null, NaN, Infinity, Bool(TRUE)}
    \cup {Str(s) : s \in {<<"1">>, <<"2">>, <<"a">>, <<>>}}

DownloadParams == [startTime : TimeValues, endTime : TimeValues, playbackSpeed : SpeedValues]

(***************************************************************************)
(* Arguments of sanitizeFilename                                           *)
(*   a head, a run of the letter a, a tail                                 *)
(***************************************************************************)
NameArg(kind, head, fill, tail) == [kind |-> kind, head |-> head, fill |-> fill, tail |-> tail]

NameText(a) == a.head \o Repeat("a", a.fill) \o a.tail

\* the value passed as title
NameArgument(a) ==
    CASE a.kind = "string" -> Str(NameText(a))
      [] a.kind = "null" -> Null
      [] a.kind = "number" -> Num(4200)
      [] a.kind = "boolean" -> Bool(TRUE)
      [] OTHER -> Undefined

NameSlack == 2       \* run lengths tried on each side of the 200 limit

NameHeads == {<<>>, <<" ">>, <<"<", ">">>, <<"x", ":", " ", "\t", "y">>, <<"\n", "/", " ", "z">>}

NameFills == {0, 1} \cup ((MAX_FILENAME_LENGTH - NameSlack - 1)..(MAX_FILENAME_LENGTH + NameSlack))

NameTails ==
    {<<>>, <<" ">>, <<" ", "b">>, <<" ", " ", "b", "c">>, <<":", " ", "b">>,
     <<"\t", "\n", "b">>, <<"/", "?", "*">>, <<"|", " ", "\\", "b", " ">>,
     <<"\"", " ", " ", ">", "b", "c">>}

NameArgs ==
    {NameArg("string", h, f, t) : h \in NameHeads, f \in NameFills, t \in NameTails}
    \cup {NameArg(k, <<>>, 0, <<>>) : k \in {"undefined", "null", "number", "boolean"}}

(***************************************************************************)
(* Arguments of validateLocalFilePath                                      *)
(***************************************************************************)
LocalPathTexts ==
    {<<>>, <<" ">>, <<"/", "u", "/", "a", ".", "m", "p", "3">>, <<"/", "u", "/", "a", ".", "e", "x", "e">>, <<"/", "e", "t", "c", "/", "a", ".", "m", "p", "3">>, <<"/", "e", "t", "c", "/", "a", ".", "e", "x", "e">>, <<"/", "u", "/", "B", ".", "M", "P", "4">>, <<"/", "u", "/", "a", ".", "M", "P", "3">>,
     <<"/", "u", "/", ".", ".", "/", "e", "t", "c", "/", "a", ".", "m", "p", "3">>, <<"/", "u", "/", "d", "l", "/", ".", ".", "/", "a", ".", "m", "p", "3">>, <<"/", "u", "/", ".", "/", "d", "l", "/", ".", ".", "/", ".", ".", "/", "u", "x", "/", "a", ".", "m", "p", "3">>, <<"/", "u", "x", "/", "a", ".", "m", "p", "3">>,
     <<"/", "V", "o", "l", "u", "m", "e", "s", "/", "v", ".", "m", "p", "3">>, <<"/", "V", "o", "l", "u", "m", "e", "s", "x", "/", "v", ".", "m", "p", "3">>, <<"u", "/", "a", ".", "m", "p", "3">>, <<" ", "/", "u", "/", "a", ".", "m", "p", "3", "\t">>, <<"/", "u", "/", "m", ".", "m", "p", "3">>,
     <<"/", "u", "/", "n", "o", "n", "e", ".", "m", "p", "3">>, <<"/", "u", "/", "d", "/", "t", "e", "m", "p", "/", "o", ".", "m", "p", "3">>, <<"/", "u", "/", ".", "m", "p", "3">>, <<"/", "u", "/", "a", ".", "m", "p", "3", "/">>, <<"/", "u", "/", "a", ".", "e", "x", "e", "/", ".", ".", "/", "a", ".", "m", "p", "3">>,
     <<"/", "u">>, <<"/", "u", "/", "a">>, <<"/", "u", "/", "a", ".", "m", "p", "3", "x">>, <<".", ".", "/", "u", "/", "a", ".", "m", "p", "4">>}

LocalPathArgs == {Str(t) : t \in LocalPathTexts} \cup {Undefined, Null, Num(4200)}

(***************************************************************************)
(* The file system                                                         *)
(***************************************************************************)
Entry(p, k, t) == [path |-> p, kind |-> k, mtime |-> t]

\* app.getPath('home'), app.getPath('downloads'), app.getPath('userData')
HomeDir == <<"/", "u">>

DownloadsDir == HomeDir \o <<"/", "d", "l">>

UserDataDir == HomeDir \o <<"/", "d">>

VolumesDir == <<"/", "V", "o", "l", "u", "m", "e", "s">>

txtTemp == <<"t", "e", "m", "p">>

txtMp3 == <<".", "m", "p", "3">>

txtMp4 == <<".", "m", "p", "4">>

\* files a user has on disk before the application starts
LocalMp3 == HomeDir \o <<"/", "a">> \o txtMp3

LocalExe == HomeDir \o <<"/", "a", ".", "e", "x", "e">>

SystemMp3 == <<"/", "e", "t", "c", "/", "a">> \o txtMp3

SavedMp3 == DownloadsDir \o <<"/", "s">> \o txtMp3

InitialFiles ==
    {Entry(d, "dir", 0) : d \in {<<"/">>, HomeDir, DownloadsDir, VolumesDir, <<"/", "e", "t", "c">>}}
    \cup {Entry(f, "file", 0) : f \in {LocalMp3, LocalExe, SystemMp3, SavedMp3}}

\* more entries for the paths that validateLocalFilePath is tried on
ProbedFiles ==
    {Entry(d, "dir", 0) : d \in {<<"/", "u", "x">>, <<"/", "V", "o", "l", "u", "m", "e", "s", "x">>, <<"/", "u", "/", "m", ".", "m", "p", "3">>}}
    \cup {Entry(f, "file", 0) :
             f \in {<<"/", "u", "/", "B", ".", "M", "P", "4">>, <<"/", "u", "x", "/", "a", ".", "m", "p", "3">>, <<"/", "V", "o", "l", "u", "m", "e", "s", "/", "v", ".", "m", "p", "3">>, <<"/", "V", "o", "l", "u", "m", "e", "s", "x", "/", "v", ".", "m", "p", "3">>,
                    <<"/", "e", "t", "c", "/", "a", ".", "e", "x", "e">>, <<"/", "u", "/", "a", ".", "m", "p", "4">>, <<"/", "u", "/", "a", ".", "m", "p", "3", "x">>}}

\* the path of the directory that holds p
Dirname(p) ==
    LET segs == SelectSeq(split(p, "/"), LAMBDA s : s # <<>>)
    IN  <<"/">> \o Join(SubSeq(segs, 1, Len(segs) - 1), <<"/">>)

\* fs.existsSync
existsSync(fs, p) == p # <<>> /\ \E e \in fs : e.path = PathResolve(p)

\* fs.statSync: the kind of the entry, or the code of the error thrown
statSync(fs, p) ==
    LET r == PathResolve(p)
        segs == SelectSeq(split(r, "/"), LAMBDA s : s # <<>>)
        above == {<<"/">> \o Join(SubSeq(segs, 1, k), <<"/">>) : k \in 1..(Len(segs) - 1)}
        hit == {e \in fs : e.path = r}
    IN  IF \E e \in fs : e.kind = "file" /\ e.path \in above THEN "ENOTDIR"
        ELSE IF hit = {} THEN "ENOENT"
        ELSE IF p[Len(p)] = "/" /\ Len(p) > 1 /\ (CHOOSE e \in hit : TRUE).kind = "file"
        THEN "ENOTDIR"
        ELSE (CHOOSE e \in hit : TRUE).kind

\* fs.readdirSync succeeds only on an existing directory
IsDirectory(fs, d) == d # <<>> /\ \E e \in fs : e.path = PathResolve(d) /\ e.kind = "dir"

\* fs.readdirSync: the names in a directory (their order is the file
\* system's, so a caller that takes the first match takes any match)
readdirSync(fs, d) ==
    {LastSegment(e.path) : e \in {x \in fs : x.path # <<"/">> /\ Dirname(x.path) = PathResolve(d)}}

\* fs.unlinkSync of a regular file
unlinkSync(fs, p) == {e \in fs : ~(e.path = PathResolve(p) /\ e.kind = "file")}

\* a file written (created or overwritten) at time t
writeFile(fs, p, t) ==
    {e \in fs : e.path # PathResolve(p)} \cup {Entry(PathResolve(p), "file", t)}

\* String.prototype.includes
includes(s, sub) ==
    \E i \in 0..(Len(s) - Len(sub)) : SubSeq(s, i + 1, i + Len(sub)) = sub

\* String.prototype.endsWith
endsWith(s, p) == Len(p) <= Len(s) /\ SubSeq(s, Len(s) - Len(p) + 1, Len(s)) = p

(***************************************************************************)
(* validateLocalFilePath                                                   *)
(***************************************************************************)
ALLOWED_SOURCE_EXT == {txtMp3, txtMp4}

getAllowedBasePaths ==
    {PathResolve(HomeDir)}
    \cup (IF tempDir # <<>> /\ existsSync(files, tempDir) THEN {PathResolve(tempDir)} ELSE {})
    \cup (IF platform = "darwin" THEN {PathResolve(VolumesDir)} ELSE {})

\* the base test as a plain text prefix, without the separator
isPathUnderAllowedBases_PlainPrefix(filePath) ==
    \E base \in getAllowedBasePaths : startsWith(PathResolve(filePath), base)

isPathUnderAllowedBases(filePath) ==
    LET resolved == PathResolve(filePath)
    IN  \E base \in getAllowedBasePaths :
            resolved = base \/ startsWith(resolved, base \o <<"/">>)

\* the checks with confinement decided before the extension
ValidatedLocalPath_ConfinementFirst(normalized, ext, stat) ==
    IF ~isPathUnderAllowedBases(normalized)
    THEN Throw("File path is not in an allowed directory")
    ELSE IF ext \notin ALLOWED_SOURCE_EXT THEN Throw("Only MP3 and MP4 files are allowed")
    ELSE IF stat = "ENOENT" THEN Throw("File not found")
    ELSE IF stat = "ENOTDIR" THEN Throw("ENOTDIR")
    ELSE IF stat # "file" THEN Throw("Path is not a file")
    ELSE Return(PathResolve(normalized))

ValidatedLocalPath(normalized, ext, stat) ==
    IF ext \notin ALLOWED_SOURCE_EXT THEN Throw("Only MP3 and MP4 files are allowed")
    ELSE IF ~isPathUnderAllowedBases(normalized)
    THEN Throw("File path is not in an allowed directory")
    ELSE IF stat = "ENOENT" THEN Throw("File not found")
    ELSE IF stat = "ENOTDIR" THEN Throw("ENOTDIR")
    ELSE IF stat # "file" THEN Throw("Path is not a file")
    ELSE Return(PathResolve(normalized))

NormalizedLocalPath(normalized) ==
    ValidatedLocalPath(normalized, toLowerCase(PathExtname(normalized)),
                       statSync(files, normalized))

validateLocalFilePath(input) ==
    IF ~Truthy(input) \/ input.t # "string" THEN Throw("File path is required")
    ELSE NormalizedLocalPath(PathNormalize(trim(input.s)))

(***************************************************************************)
(* Surfaces and the sender check                                           *)
(* Surface 0 is a web contents that createWindow did not make; surfaces    *)
(* 1..MaxWindows are the windows of createWindow, in order of creation.    *)
(***************************************************************************)
MaxWindows == 2      \* windows createWindow can make in one run

MaxCalls == 1        \* IPC calls made in one run

MaxClock == 1        \* the last value of the clock

MaxAuthCalls == 2    \* IPC calls made in one run of SpecAuth

MaxJobs == 2         \* download-mp3 jobs made in one run of SpecJobs

NoWindow == 0 - 1

OtherSurface == 0

Windows == 1..MaxWindows

SurfaceIds == {OtherSurface} \cup Windows

txtLocalhost5173 ==
    txtHttp \o txtSlashes \o txtLocalhost \o <<":", "5", "1", "7", "3">>

txtLoopback5173 ==
    txtHttp \o txtSlashes \o <<"1", "2", "7", ".", "0", ".", "0", ".", "1", ":", "5", "1", "7", "3">>

txtFileScheme == <<"f", "i", "l", "e">> \o txtSlashes

\* path.join(__dirname, 'dist', 'index.html') as a file URL
DistIndexUrl ==
    txtFileScheme \o <<"/", "a", "p", "p", "/", "d", "i", "s", "t", "/",
                       "i", "n", "d", "e", "x", ".", "h", "t", "m", "l">>

\* a surface that exists and has not been destroyed
IsOpen(s) == surfaces[s].state = "open"

\* a surface after its window has closed
Destroyed == [state |-> "closed", url |-> <<>>]

getAllowedOrigins == IF isDev THEN {txtLocalhost5173, txtLoopback5173} ELSE {txtFileScheme}

\* allowed.some(...) of isAllowedSender, will-navigate and will-redirect
MatchesAllowedOrigin(url) == \E origin \in getAllowedOrigins : startsWith(url, origin)

isAllowedSender_LocationOnly(event) == MatchesAllowedOrigin(surfaces[event.sender].url)

\* variant: a sender once accepted stays accepted
isAllowedSender_Cached(event) ==
    \/ \E i \in 1..Len(calls) :
           calls[i].sender = event.sender /\ calls[i].error # "Unauthorized"
    \/ /\ mainWindow # NoWindow /\ event.sender = mainWindow
       /\ MatchesAllowedOrigin(surfaces[event.sender].url)

isAllowedSender(event) ==
    IF mainWindow = NoWindow \/ event.sender # mainWindow THEN FALSE
    ELSE MatchesAllowedOrigin(surfaces[event.sender].url)

\* mainWindow && !mainWindow.isDestroyed()
MainWindowAlive == mainWindow # NoWindow /\ IsOpen(mainWindow)

\* BrowserWindow.getAllWindows()
OpenWindows == {w \in Windows : IsOpen(w)}

\* the windows createWindow has made so far
CreatedWindows == {w \in Windows : surfaces[w].state # "none"}

\* locations a page can try to navigate the window to
NavigationTargets ==
    {txtLoopback5173 \o <<"/">>,
     txtLocalhost5173 \o <<"0", "/">>,
     txtHttps \o txtSlashes \o txtExample \o <<"/">>,
     txtFileScheme \o SystemMp3}

\* the page createWindow loads
StartUrl == IF isDev THEN txtLocalhost5173 \o <<"/">> ELSE DistIndexUrl

(***************************************************************************)
(* IPC calls                                                               *)
(***************************************************************************)
Channels ==
    {"get-video-info", "open-file-dialog", "get-local-file-info", "download-mp3",
     "show-item-in-folder"}

Args(url, filePath, sourceFilePath, title, startTime, endTime, playbackSpeed) ==
    [url |-> url, filePath |-> filePath, sourceFilePath |-> sourceFilePath, title |-> title,
     startTime |-> startTime, endTime |-> endTime, playbackSpeed |-> playbackSpeed]

NoArgs == Args(Undefined, Undefined, Undefined, Undefined, Undefined, Undefined, Undefined)

PublicUrl == txtHttps \o txtSlashes \o txtExample \o <<"/", "v">>

LoopbackUrl == txtHttp \o txtSlashes \o txtLocalhost \o <<"/">>

ArgsOf(channel) ==
    CASE channel = "get-video-info" ->
            {[NoArgs EXCEPT !.url = Str(u)] : u \in {PublicUrl, LoopbackUrl}}
      [] channel = "open-file-dialog" -> {NoArgs}
      [] channel = "get-local-file-info" ->
            {[NoArgs EXCEPT !.filePath = Str(f)] : f \in {LocalMp3, SystemMp3}}
      [] channel = "show-item-in-folder" ->
            {[NoArgs EXCEPT !.filePath = Str(f)] :
                 f \in {SavedMp3, LocalMp3, DownloadsDir, DownloadsDir \o <<"/", ".", ".", "/", "a">> \o txtMp3,
                        DownloadsDir \o <<"x", "/", "s">> \o txtMp3,
                        DownloadsDir \o <<"/", "n">> \o txtMp3}}
      [] channel = "download-mp3" ->
            {[NoArgs EXCEPT !.url = Str(PublicUrl)],
             [NoArgs EXCEPT !.url = Str(PublicUrl), !.title = Str(<<"t">>),
                            !.startTime = Num(500), !.endTime = Num(1000)],
             [NoArgs EXCEPT !.url = Str(LoopbackUrl)],
             [NoArgs EXCEPT !.url = Str(PublicUrl), !.startTime = Num(0 - 100)],
             [NoArgs EXCEPT !.sourceFilePath = Str(LocalMp3)],
             [NoArgs EXCEPT !.sourceFilePath = Str(SystemMp3), !.playbackSpeed = Num(200)],
             [NoArgs EXCEPT !.url = Str(PublicUrl), !.sourceFilePath = Str(LocalMp3),
                            !.startTime = Num(1000), !.endTime = Num(500)],
             [NoArgs EXCEPT !.url = Str(PublicUrl), !.sourceFilePath = Str(<<" ">>),
                            !.title = Str(<<"t">>)],
             [NoArgs EXCEPT !.sourceFilePath = Str(LocalMp3),
                            !.startTime = Num(500), !.endTime = Num(500)]}

Effect(kind, detail) == [kind |-> kind, detail |-> detail]

NoParams == [startTime |-> Undefined, endTime |-> Undefined, playbackSpeed |-> Undefined]

NoCommand == [seekInput |-> Undefined, duration |-> Undefined]

\* a call as it enters its handler
NewCall(channel, sender, args) ==
    [channel |-> channel, sender |-> sender, args |-> args,
     senderUrl |-> surfaces[sender].url, mainWindowAtCall |-> mainWindow,
     pc |-> "running", error |-> "", value |-> <<>>, effects |-> <<>>,
     timestamp |-> 0, isLocalFile |-> FALSE, params |-> NoParams,
     downloadedFilePath |-> <<>>, videoTitle |-> <<>>, command |-> NoCommand,
     finalFile |-> <<>>]

Did(c, kind, detail) == [c EXCEPT !.effects = Append(@, Effect(kind, detail))]

Reject(c, msg) == [c EXCEPT !.pc = "rejected", !.error = msg]

Resolve(c, v) == [c EXCEPT !.pc = "resolved", !.value = v]

Await(c, pc) == [c EXCEPT !.pc = pc]

\* what a handler step leaves behind: the call and the file system
Step(c, fs) == [call |-> c, fs |-> fs]

Settled(c) == c.pc \in {"resolved", "rejected"}

UnsupportedLink == "This link isn't supported or couldn't be reached."

(***************************************************************************)
(* The handlers, up to their first suspension                              *)
(***************************************************************************)
\* `output_${timestamp}` and `video_${timestamp}`: the clock reads
\* 170, 171, ...
TimestampText(t) == <<"1", "7">> \o NatToText(t, 10)

txtOutput == <<"o", "u", "t", "p", "u", "t">>

OutputPrefix(t) == txtOutput \o <<"_">> \o TimestampText(t)

VideoPrefix(t) == <<"v", "i", "d", "e", "o", "_">> \o TimestampText(t)

\* path.join(tempDir, name)
InTempDir(name) == IF tempDir = <<>> THEN PathNormalize(name) ELSE PathJoin(tempDir, name)

\* sendPhase of download-mp3
\* variant: the phase is sent whatever has become of the main window
sendPhase_Unguarded(c, phase) == Did(c, "phase", phase)

sendPhase(c, phase) == IF MainWindowAlive THEN Did(c, "phase", phase) ELSE c

\* the catch block of download-mp3: delete the temporary files that carry
\* the job's timestamp, then rethrow
CatchSweep(c, fs, msg) ==
    IF ~IsDirectory(fs, tempDir) THEN Step(Reject(Did(c, "fs", "readdir"), "ENOENT"), fs)
    ELSE Step(Reject(Did(c, "fs", "readdir"), msg),
              {e \in fs : ~(/\ e.kind = "file"
                            /\ Dirname(e.path) = PathResolve(tempDir)
                            /\ includes(LastSegment(e.path), TimestampText(c.timestamp)))})

\* the transcoder started with whatever endTime - startTime comes to
StartTranscode_AnyDuration(c, fs) ==
    LET s == c.params.startTime
        e == c.params.endTime
        command == [seekInput |-> s,
                    duration |-> IF e = Undefined THEN Undefined
                                 ELSE Num(e.n - (IF s = Undefined THEN 0 ELSE s.n))]
    IN  Step(Await(Did([sendPhase(c, "converting") EXCEPT !.command = command],
                       "process", "ffmpeg"), "transcode"), fs)

\* the transcoder is configured and started; the promise is returned
StartTranscode(c, fs) ==
    LET s == c.params.startTime
        e == c.params.endTime
        duration == IF e = Undefined THEN Undefined
                    ELSE Num(e.n - (IF s = Undefined THEN 0 ELSE s.n))
        command == [seekInput |-> s,
                    duration |-> IF duration # Undefined /\ duration.n > 0
                                 THEN duration ELSE Undefined]
        c1 == sendPhase(c, "converting")
    IN  Step(Await(Did([c1 EXCEPT !.command = command], "process", "ffmpeg"), "transcode"), fs)

\* ytDlpWrap.execPromise: a TypeError when the wrapper was never built
StartFetch(c, fs) ==
    IF ~ytDlpWrap THEN CatchSweep(c, fs, "TypeError")
    ELSE Step(Await(Did(c, "process", "yt-dlp"), "fetch"), fs)

TitleGiven(title) == title.t = "string" /\ trim(title.s) # <<>>

\* variant: the error of a probe that cannot be started reaches the caller
GetVideoInfoFor_ErrorSurfaced(c, v) ==
    IF ~v.ok THEN Step(Reject(c, v.error), files)
    ELSE IF ~ytDlpWrap THEN Step(Reject(c, "Cannot read properties of undefined"), files)
    ELSE Step(Await(Did(c, "process", "getVideoInfo"), "getVideoInfo"), files)

GetVideoInfoFor(c, v) ==
    IF ~v.ok THEN Step(Reject(c, v.error), files)
    ELSE IF ~ytDlpWrap THEN Step(Reject(c, UnsupportedLink), files)
    ELSE Step(Await(Did(c, "process", "getVideoInfo"), "getVideoInfo"), files)

GetVideoInfo(event, c) ==
    IF ~isAllowedSender(event) THEN Step(Reject(c, "Unauthorized"), files)
    ELSE GetVideoInfoFor(Did(c, "validator", "validateUrl"), validateUrl(c.args.url))

OpenFileDialog_NoSenderCheck(event, c) ==
    IF ~IsOpen(event.sender) THEN Step(Reject(c, "Window not available"), files)
    ELSE Step(Await(Did(c, "dialog", "open"), "openDialog"), files)

OpenFileDialog(event, c) ==
    IF ~isAllowedSender(event) THEN Step(Reject(c, "Unauthorized"), files)
    ELSE IF ~IsOpen(event.sender) THEN Step(Reject(c, "Window not available"), files)
    ELSE Step(Await(Did(c, "dialog", "open"), "openDialog"), files)

GetLocalFileInfoFor(c, v) ==
    IF ~v.ok THEN Step(Reject(c, v.error), files)
    ELSE Step(Await(Did([c EXCEPT !.downloadedFilePath = v.value], "process", "ffmpeg -i"),
                    "duration"), files)

GetLocalFileInfo(event, c) ==
    IF ~isAllowedSender(event) THEN Step(Reject(c, "Unauthorized"), files)
    ELSE GetLocalFileInfoFor(Did(c, "validator", "validateLocalFilePath"),
                             validateLocalFilePath(c.args.filePath))

\* the title of a job: the given title, else what the caller falls back to
TitleOr(title, fallback) ==
    IF TitleGiven(title) THEN sanitizeFilename(Str(trim(title.s))) ELSE fallback

\* the local branch of the try block, vl being what validateLocalFilePath did
DownloadLocal(c, vl) ==
    IF ~vl.ok THEN CatchSweep(c, files, vl.error)
    ELSE StartTranscode(
           [c EXCEPT !.downloadedFilePath = vl.value,
                     !.videoTitle =
                         TitleOr(c.args.title,
                                 sanitizeFilename(
                                     Str(PathBasename(vl.value, PathExtname(vl.value)))))],
           files)

\* the remote branch of the try block, vu being what validateUrl did
DownloadRemote(c, vu) ==
    IF ~vu.ok THEN CatchSweep(c, files, vu.error)
    ELSE IF TitleGiven(c.args.title)
    THEN StartFetch([c EXCEPT !.videoTitle = TitleOr(c.args.title, txtOutput)], files)
    ELSE IF ~ytDlpWrap THEN StartFetch(c, files)
    ELSE Step(Await(Did(c, "process", "getVideoInfo"), "probe"), files)

\* the try block taking the url whenever one is given
DownloadTry_UrlFirst(c) ==
    IF c.args.url.t # "string"
    THEN DownloadLocal(Did(c, "validator", "validateLocalFilePath"),
                       validateLocalFilePath(c.args.sourceFilePath))
    ELSE DownloadRemote(Did(c, "validator", "validateUrl"), validateUrl(c.args.url))

\* the try block: c has sent its first phase
DownloadTry(c) ==
    IF c.isLocalFile
    THEN DownloadLocal(Did(c, "validator", "validateLocalFilePath"),
                       validateLocalFilePath(c.args.sourceFilePath))
    ELSE DownloadRemote(Did(c, "validator", "validateUrl"), validateUrl(c.args.url))

\* vp is what validateDownloadParams did
DownloadWithParams(c, isLocalFile, vp) ==
    IF ~vp.ok THEN Step(Reject(c, vp.error), files)
    ELSE DownloadTry(sendPhase([c EXCEPT !.params = vp.value, !.timestamp = now,
                                         !.isLocalFile = isLocalFile,
                                         !.videoTitle = txtOutput],
                               IF isLocalFile THEN "converting" ELSE "downloading"))

\* variant: the parameters are validated before the sender is checked
DownloadMp3_ParamsFirst(event, c) ==
    IF ~validateDownloadParams([startTime |-> c.args.startTime, endTime |-> c.args.endTime,
                                playbackSpeed |-> c.args.playbackSpeed]).ok
    THEN Step(Reject(c, "Invalid parameters"), files)
    ELSE IF ~isAllowedSender(event) THEN Step(Reject(c, "Unauthorized"), files)
    ELSE DownloadWithParams(
           Did(c, "validator", "validateDownloadParams"),
           c.args.sourceFilePath.t = "string" /\ trim(c.args.sourceFilePath.s) # <<>>,
           validateDownloadParams([startTime |-> c.args.startTime, endTime |-> c.args.endTime,
                                   playbackSpeed |-> c.args.playbackSpeed]))

DownloadMp3(event, c) ==
    IF ~isAllowedSender(event) THEN Step(Reject(c, "Unauthorized"), files)
    ELSE DownloadWithParams(
           Did(c, "validator", "validateDownloadParams"),
           c.args.sourceFilePath.t = "string" /\ trim(c.args.sourceFilePath.s) # <<>>,
           validateDownloadParams([startTime |-> c.args.startTime, endTime |-> c.args.endTime,
                                   playbackSpeed |-> c.args.playbackSpeed]))

\* the handler with the Downloads test as a plain text prefix
ShowItemInFolder_PlainPrefix(event, c) ==
    IF ~isAllowedSender(event) THEN Step(Reject(c, "Unauthorized"), files)
    ELSE IF c.args.filePath.t # "string" \/ trim(c.args.filePath.s) = <<>>
    THEN Step(Reject(c, "File path is required"), files)
    ELSE IF ~startsWith(PathResolve(trim(c.args.filePath.s)), PathResolve(DownloadsDir))
    THEN Step(Reject(c, "Path must be in the Downloads folder"), files)
    ELSE IF ~existsSync(files, PathResolve(trim(c.args.filePath.s)))
    THEN Step(Reject(Did(c, "fs", "exists"), "File not found"), files)
    ELSE Step(Resolve(Did(Did(c, "fs", "exists"), "shell", "showItemInFolder"),
                      PathResolve(trim(c.args.filePath.s))), files)

ShowItemInFolder(event, c) ==
    IF ~isAllowedSender(event) THEN Step(Reject(c, "Unauthorized"), files)
    ELSE LET filePath == c.args.filePath
             resolved == PathResolve(trim(filePath.s))
             downloadsDir == PathResolve(DownloadsDir)
         IN  IF filePath.t # "string" \/ trim(filePath.s) = <<>>
             THEN Step(Reject(c, "File path is required"), files)
             ELSE IF ~(resolved = downloadsDir \/ startsWith(resolved, downloadsDir \o <<"/">>))
             THEN Step(Reject(c, "Path must be in the Downloads folder"), files)
             ELSE IF ~existsSync(files, resolved)
             THEN Step(Reject(Did(c, "fs", "exists"), "File not found"), files)
             ELSE Step(Resolve(Did(Did(c, "fs", "exists"), "shell", "showItemInFolder"),
                               resolved), files)

\* ipcMain.handle: the handler registered for a channel
Handle(channel, event, c) ==
    CASE channel = "get-video-info" -> GetVideoInfo(event, c)
      [] channel = "open-file-dialog" -> OpenFileDialog(event, c)
      [] channel = "get-local-file-info" -> GetLocalFileInfo(event, c)
      [] channel = "download-mp3" -> DownloadMp3(event, c)
      [] channel = "show-item-in-folder" -> ShowItemInFolder(event, c)

(***************************************************************************)
(* Startup and the window                                                  *)
(***************************************************************************)
TempDirPath == PathJoin(UserDataDir, txtTemp)

\* createWindow: a new window becomes the main window and loads the page
\* variant: only the first window is kept in the handle
createWindow_FirstOnly ==
    LET w == MinOf(Windows \ CreatedWindows)
    IN  /\ surfaces' = [surfaces EXCEPT ![w] =
                           [state |-> "open", url |-> StartUrl]]
        /\ mainWindow' = IF CreatedWindows = {} THEN w ELSE mainWindow

createWindow ==
    LET w == MinOf(Windows \ CreatedWindows)
    IN  /\ surfaces' = [surfaces EXCEPT ![w] =
                           [state |-> "open", url |-> StartUrl]]
        /\ mainWindow' = w

\* app.whenReady().then(...): the downloader is found and the temporary
\* directory made ("ok"), the downloader is missing ("noBinary"), or making
\* the directory throws ("mkdirFails")
AppReady(outcome) ==
    /\ appState = "starting"
    /\ appState' = "ready"
    /\ ytDlpWrap' = (outcome # "noBinary")
    /\ tempDir' = IF outcome = "noBinary" THEN <<>> ELSE TempDirPath
    /\ files' = IF outcome = "ok"
                THEN files \cup {Entry(UserDataDir, "dir", now), Entry(TempDirPath, "dir", now)}
                ELSE files
    /\ activateHandler' = (outcome = "ok")
    /\ createWindow
    /\ UNCHANGED <<platform, isDev, now, calls>>
    /\ UNCHANGED <<validatorVars, uiVars>>

\* a web contents that is not a window of createWindow comes up and
\* loads the page of the application
OpenOther ==
    /\ appState = "ready"
    /\ surfaces[OtherSurface].state = "none"
    /\ surfaces' = [surfaces EXCEPT ![OtherSurface] = [state |-> "open", url |-> StartUrl]]
    /\ UNCHANGED <<platform, isDev, appState, ytDlpWrap, tempDir, activateHandler,
                   mainWindow, now, files, calls>>
    /\ UNCHANGED <<validatorVars, uiVars>>

\* the user closes a window: 'closed' clears mainWindow, and
\* 'window-all-closed' quits the application except on macOS
CloseWindow(w) ==
    /\ appState = "ready"
    /\ IsOpen(w)
    /\ mainWindow' = NoWindow
    /\ IF platform # "darwin" /\ OpenWindows = {w}
       THEN /\ appState' = "quit"
            /\ surfaces' = [s \in SurfaceIds |->
                               IF surfaces[s].state = "none" THEN surfaces[s] ELSE Destroyed]
       ELSE /\ appState' = appState
            /\ surfaces' = [surfaces EXCEPT ![w] = Destroyed]
    /\ UNCHANGED <<platform, isDev, ytDlpWrap, tempDir, activateHandler, now, files, calls>>
    /\ UNCHANGED <<validatorVars, uiVars>>

\* app.on('activate'): the dock icon is clicked (macOS)
Activate ==
    /\ appState = "ready"
    /\ activateHandler
    /\ platform = "darwin"
    /\ OpenWindows = {}
    /\ Windows \ CreatedWindows # {}
    /\ createWindow
    /\ UNCHANGED <<platform, isDev, appState, ytDlpWrap, tempDir, activateHandler,
                   now, files, calls>>
    /\ UNCHANGED <<validatorVars, uiVars>>

\* the page in a window navigates or is redirected: 'will-navigate' and
\* 'will-redirect' prevent the navigation unless the target is allowed
Navigate(w, url) ==
    /\ appState = "ready"
    /\ IsOpen(w)
    /\ surfaces[w].url # url
    /\ MatchesAllowedOrigin(url)
    /\ surfaces' = [surfaces EXCEPT ![w].url = url]
    /\ UNCHANGED <<platform, isDev, appState, ytDlpWrap, tempDir, activateHandler,
                   mainWindow, now, files, calls>>
    /\ UNCHANGED <<validatorVars, uiVars>>

\* time passes
Tick ==
    /\ appState = "ready"
    /\ now < MaxClock
    /\ now' = now + 1
    /\ UNCHANGED <<platform, isDev, appState, ytDlpWrap, tempDir, activateHandler,
                   mainWindow, surfaces, files, calls>>
    /\ UNCHANGED <<validatorVars, uiVars>>

\* dist/index.html is written while the application runs (a build
\* finishes): getAllowedOrigins and createWindow test fs.existsSync at
\* every evaluation, so the allow-list turns from the development
\* origins to 'file://' while open windows keep their location
DistIndexAppears ==
    /\ appState = "ready"
    /\ isDev
    /\ isDev' = FALSE
    /\ UNCHANGED <<platform, appState, ytDlpWrap, tempDir, activateHandler,
                   mainWindow, surfaces, now, files, calls>>
    /\ UNCHANGED <<validatorVars, uiVars>>

(***************************************************************************)
(* IPC calls and their continuations                                       *)
(***************************************************************************)
\* ipcRenderer.invoke from an open surface: the handler runs up to its
\* first suspension
Invoke(channel, sender, args) ==
    /\ appState = "ready"
    /\ IsOpen(sender)
    /\ Len(calls) < MaxCalls
    /\ \E step \in {Handle(channel, [sender |-> sender], NewCall(channel, sender, args))} :
           /\ calls' = Append(calls, step.call)
           /\ files' = step.fs
    /\ UNCHANGED <<platform, isDev, appState, ytDlpWrap, tempDir, activateHandler,
                   mainWindow, surfaces, now>>
    /\ UNCHANGED <<validatorVars, uiVars>>

\* a handler step of call i ends with the call and the file system given
Continue(i, step) ==
    /\ calls' = [calls EXCEPT ![i] = step.call]
    /\ files' = step.fs
    /\ UNCHANGED <<platform, isDev, appState, ytDlpWrap, tempDir, activateHandler,
                   mainWindow, surfaces, now>>
    /\ UNCHANGED <<validatorVars, uiVars>>

Running(i, pc) == appState = "ready" /\ i \in 1..Len(calls) /\ calls[i].pc = pc

\* ytDlpWrap.getVideoInfo settles in get-video-info
VideoInfoSettles(i, ok) ==
    /\ Running(i, "getVideoInfo")
    /\ Continue(i, Step(IF ok THEN Resolve(calls[i], <<"t">>)
                        ELSE Reject(calls[i], UnsupportedLink), files))

\* variant: a title probe that gives no title fails the job
ProbeSettles_FailsJob(i, title) ==
    /\ Running(i, "probe")
    /\ Continue(i, IF title = <<>> THEN CatchSweep(calls[i], files, UnsupportedLink)
                   ELSE StartFetch([calls[i] EXCEPT !.videoTitle = sanitizeFilename(Str(title))],
                                   files))

\* ytDlpWrap.getVideoInfo settles in download-mp3: a title, no title, or an
\* error that is logged and ignored; the download starts
ProbeSettles(i, title) ==
    /\ Running(i, "probe")
    /\ Continue(i, StartFetch(IF title = <<>> THEN calls[i]
                              ELSE [calls[i] EXCEPT !.videoTitle = sanitizeFilename(Str(title))],
                              files))

\* the duration probe of get-local-file-info settles
DurationSettles(i) ==
    /\ Running(i, "duration")
    /\ \E title \in {PathBasename(calls[i].downloadedFilePath,
                                  PathExtname(calls[i].downloadedFilePath))} :
           Continue(i, Step(Resolve(calls[i], IF title = <<>> THEN txtAudio ELSE title), files))

\* dialog.showOpenDialog settles: canceled (no path) or a path
OpenDialogSettles(i, filePath) ==
    /\ Running(i, "openDialog")
    /\ Continue(i, Step(IF filePath = <<>> THEN Resolve(calls[i], <<>>)
                        ELSE IF toLowerCase(PathExtname(filePath)) \notin ALLOWED_SOURCE_EXT
                        THEN Reject(calls[i], "Only MP3 and MP4 files are allowed")
                        ELSE Resolve(calls[i], filePath), files))

\* names in tempDir that files.find of the download step can return
DownloadedCandidates(fs, c) ==
    {f \in readdirSync(fs, tempDir) : startsWith(f, VideoPrefix(c.timestamp))}

\* variant: a failed fetch is started again
FetchExited_Retry(i, c, fs, failed) ==
    IF failed THEN Continue(i, StartFetch(c, fs))
    ELSE IF ~IsDirectory(fs, tempDir) THEN Continue(i, CatchSweep(c, fs, "ENOENT"))
    ELSE IF DownloadedCandidates(fs, c) = {}
    THEN Continue(i, CatchSweep(c, fs, "Downloaded file not found"))
    ELSE \E pick \in DownloadedCandidates(fs, c) :
             Continue(i, StartTranscode([c EXCEPT !.downloadedFilePath = InTempDir(pick)], fs))

\* variant: the transcoder is started although no fetched file was found
FetchExited_Unlocated(i, c, fs, failed) ==
    IF failed THEN Continue(i, CatchSweep(c, fs, "yt-dlp failed"))
    ELSE IF ~IsDirectory(fs, tempDir) THEN Continue(i, CatchSweep(c, fs, "ENOENT"))
    ELSE IF DownloadedCandidates(fs, c) = {}
    THEN Continue(i, StartTranscode(c, fs))
    ELSE \E pick \in DownloadedCandidates(fs, c) :
             Continue(i, StartTranscode([c EXCEPT !.downloadedFilePath = InTempDir(pick)], fs))

\* ytDlpWrap.execPromise settles: "written" (exit 0, the file is there),
\* "nothing" (exit 0, no file), "failed" (rejected), "partial" (rejected, a
\* partial file is left behind)
FetchExited(i, c, fs, failed) ==
    IF failed THEN Continue(i, CatchSweep(c, fs, "yt-dlp failed"))
    ELSE IF ~IsDirectory(fs, tempDir) THEN Continue(i, CatchSweep(c, fs, "ENOENT"))
    ELSE IF DownloadedCandidates(fs, c) = {}
    THEN Continue(i, CatchSweep(c, fs, "Downloaded file not found"))
    ELSE \E pick \in DownloadedCandidates(fs, c) :
             Continue(i, StartTranscode([c EXCEPT !.downloadedFilePath = InTempDir(pick)], fs))

FetchSettles(i, outcome) ==
    /\ Running(i, "fetch")
    /\ FetchExited(i, calls[i],
                   CASE outcome = "written" ->
                            writeFile(files, InTempDir(VideoPrefix(calls[i].timestamp)
                                                       \o <<".", "m", "4", "a">>), now)
                     [] outcome = "partial" ->
                            writeFile(files, InTempDir(VideoPrefix(calls[i].timestamp)
                                                       \o <<".", "m", "4", "a", ".", "p", "a", "r", "t">>),
                                      now)
                     [] OTHER -> files,
                   outcome \in {"failed", "partial"})

\* cleanupTempInput, and the same lines of the 'error' handler
cleanupTempInput(c, fs) ==
    IF ~c.isLocalFile /\ existsSync(fs, c.downloadedFilePath)
    THEN unlinkSync(fs, c.downloadedFilePath) ELSE fs

\* promptAndSave up to the save dialog
promptAndSave(c, fs, finalFile) ==
    IF ~MainWindowAlive THEN Step(Reject(c, "Window not available"), fs)
    ELSE Step(Await(Did([c EXCEPT !.finalFile = finalFile], "dialog", "save"), "saveDialog"), fs)

\* names in tempDir the 'end' handler can take as the job's output: a name
\* that starts with `output_${timestamp}`, else the most recent .mp3
MostRecent(fs, mp3) ==
    {f \in mp3 : \A g \in mp3 :
        (CHOOSE e \in fs : e.path = PathResolve(InTempDir(g))).mtime
            <= (CHOOSE e \in fs : e.path = PathResolve(InTempDir(f))).mtime}

OwnOrMostRecent(fs, own, mp3) == IF own # {} THEN own ELSE MostRecent(fs, mp3)

OutputCandidates(fs, c) ==
    OwnOrMostRecent(fs,
                    {f \in readdirSync(fs, tempDir) : startsWith(f, OutputPrefix(c.timestamp))},
                    {f \in readdirSync(fs, tempDir) : endsWith(f, txtMp3)})

\* variant: the 'error' handler rejects without removing the input
TranscodeExited_InputKept(i, c, fs, failed) ==
    IF failed THEN Continue(i, Step(Reject(c, "ffmpeg failed"), fs))
    ELSE IF ~IsDirectory(fs, tempDir)
    THEN Continue(i, Step(Reject(Did(c, "fs", "readdir"), "ENOENT"), fs))
    ELSE IF OutputCandidates(fs, c) = {}
    THEN Continue(i, Step(Reject(Did(c, "fs", "readdir"), "Output file not found"),
                          cleanupTempInput(c, fs)))
    ELSE \E pick \in OutputCandidates(fs, c) :
             Continue(i, promptAndSave(Did(c, "fs", "readdir"), fs, InTempDir(pick)))

\* the transcoder settles: 'end' with the output written ("end") or not
\* ("endNoOutput"), 'error' with a partial output left ("errorPartial") or
\* not ("error")
\* variant: the 'error' callback cleans up and never rejects
TranscodeExited_ErrorLost(i, c, fs, failed) ==
    IF failed THEN Continue(i, Step(Await(c, "lost"), cleanupTempInput(c, fs)))
    ELSE IF ~IsDirectory(fs, tempDir)
    THEN Continue(i, Step(Reject(Did(c, "fs", "readdir"), "ENOENT"), fs))
    ELSE IF OutputCandidates(fs, c) = {}
    THEN Continue(i, Step(Reject(Did(c, "fs", "readdir"), "Output file not found"),
                          cleanupTempInput(c, fs)))
    ELSE \E pick \in OutputCandidates(fs, c) :
             Continue(i, promptAndSave(Did(c, "fs", "readdir"), fs, InTempDir(pick)))

TranscodeExited(i, c, fs, failed) ==
    IF failed THEN Continue(i, Step(Reject(c, "ffmpeg failed"), cleanupTempInput(c, fs)))
    ELSE IF ~IsDirectory(fs, tempDir)
    THEN Continue(i, Step(Reject(Did(c, "fs", "readdir"), "ENOENT"), fs))
    ELSE IF OutputCandidates(fs, c) = {}
    THEN Continue(i, Step(Reject(Did(c, "fs", "readdir"), "Output file not found"),
                          cleanupTempInput(c, fs)))
    ELSE \E pick \in OutputCandidates(fs, c) :
             Continue(i, promptAndSave(Did(c, "fs", "readdir"), fs, InTempDir(pick)))

TranscodeSettles(i, outcome) ==
    /\ Running(i, "transcode")
    /\ TranscodeExited(i, calls[i],
                       IF outcome \in {"end", "errorPartial"}
                       THEN writeFile(files, InTempDir(OutputPrefix(calls[i].timestamp) \o txtMp3),
                                      now)
                       ELSE files,
                       outcome \in {"error", "errorPartial"})

\* where the user can save: the proposed path in the Downloads folder
SavePath(c) == PathJoin(DownloadsDir, c.videoTitle \o txtMp3)

\* variant: a canceled dialog rejects and leaves the temp files
SaveDialogSettles_CancelKeepsFiles(i, savePath) ==
    /\ Running(i, "saveDialog")
    /\ IF savePath = <<>>
       THEN Continue(i, Step(Reject(calls[i], "Save canceled"), files))
       ELSE /\ savePath = SavePath(calls[i])
            /\ IF ~existsSync(files, calls[i].finalFile)
               THEN Continue(i, Step(Reject(calls[i], "ENOENT"), files))
               ELSE Continue(i, Step(Resolve(calls[i], savePath),
                                     unlinkSync(cleanupTempInput(calls[i],
                                                                 writeFile(files, savePath, now)),
                                                calls[i].finalFile)))

\* dialog.showSaveDialog settles: canceled (no path) or a path
SaveDialogSettles(i, savePath) ==
    /\ Running(i, "saveDialog")
    /\ IF savePath = <<>>
       THEN Continue(i, Step(Reject(calls[i], "Save canceled"),
                             unlinkSync(cleanupTempInput(calls[i], files), calls[i].finalFile)))
       ELSE /\ savePath = SavePath(calls[i])
            /\ IF ~existsSync(files, calls[i].finalFile)
               THEN Continue(i, Step(Reject(calls[i], "ENOENT"), files))
               ELSE Continue(i, Step(Resolve(calls[i], savePath),
                                     unlinkSync(cleanupTempInput(calls[i],
                                                                 writeFile(files, savePath, now)),
                                                calls[i].finalFile)))

\* the process before app.whenReady() resolves
\* the state of the wizard when the window opens (app.tsx initialState)
initialState ==
    [sourceType |-> "url", url |-> <<>>, sourceFilePath |-> <<>>,
     durationSeconds |-> Null, startSeconds |-> Num(0), endSeconds |-> Null,
     currentStep |-> 1, isLoading |-> FALSE, isFetchingVideoInfo |-> FALSE]

NoPayload == [sent |-> FALSE, duration |-> Null, startTime |-> Num(0), endTime |-> Null]

NothingPending ==
    [timer |-> FALSE,
     fetches |-> [kind \in {"debounce", "nextUrl", "nextFile"} |-> 0],
     job |-> FALSE, submitted |-> NoPayload]

IdleUi == wizard = initialState /\ rendered = initialState /\ pending = NothingPending

NotStarted ==
    /\ appState = "starting"
    /\ ytDlpWrap = FALSE
    /\ tempDir = <<>>
    /\ activateHandler = FALSE
    /\ mainWindow = NoWindow
    /\ surfaces = [s \in SurfaceIds |-> [state |-> "none", url |-> <<>>]]
    /\ now = 0
    /\ files = InitialFiles
    /\ calls = <<>>

(***************************************************************************)
(* The validators called on their own                                      *)
(***************************************************************************)
CallValidateUrl ==
    /\ urlResult = Pending
    /\ urlResult' = validateUrl(UrlArgument(urlParts))
    /\ UNCHANGED <<urlParts, apiResult, dpInput, dpResult, sfInput, sfResult, sfAgain,
                   lpInput, lpResult, afInput, afResult>>
    /\ UNCHANGED <<appVars, uiVars>>

CallValidateDownloadParams ==
    /\ dpResult = Pending
    /\ dpResult' = validateDownloadParams(dpInput)
    /\ UNCHANGED <<dpInput, urlParts, urlResult, apiResult, sfInput, sfResult, sfAgain,
                   lpInput, lpResult, afInput, afResult>>
    /\ UNCHANGED <<appVars, uiVars>>

IdleUrl == urlParts = UrlArg("undefined", 0, <<>>, <<>>, "name", NoOctets, <<>>, 0, 0)
           /\ urlResult = Pending /\ apiResult = Pending

IdleParams ==
    /\ dpInput = [startTime |-> Undefined, endTime |-> Undefined, playbackSpeed |-> Undefined]
    /\ dpResult = Pending

IdleName ==
    /\ sfInput = NameArg("undefined", <<>>, 0, <<>>)
    /\ sfResult = Pending
    /\ sfAgain = Pending

IdlePath == lpInput = Undefined /\ lpResult = Pending

IdleTempo == afInput = Undefined /\ afResult = Pending

IdleAll == IdleUrl /\ IdleParams /\ IdleName /\ IdlePath /\ IdleTempo

\* the validators are called in a process that has not started the application
IdleApp == platform = "linux" /\ isDev = FALSE /\ NotStarted /\ IdleUi

InitUrl ==
    /\ urlParts \in UrlArgs /\ urlResult = Pending /\ apiResult = Pending
    /\ IdleParams /\ IdleName /\ IdlePath /\ IdleTempo /\ IdleApp

NextUrl == CallValidateUrl

SpecUrl == InitUrl /\ [][NextUrl]_vars

(***************************************************************************)
(* The same text given to validateUrl and to the development server        *)
(***************************************************************************)
\* texts with percent escapes in the path
EscapedArgs ==
    {UrlArg("string", 0, txtHttps, txtSlashes, "name", NoOctets, txtExample \o path, 0, 0) :
        path \in {<<"/", "%", "4", "1">>, <<"/", "%", "z", "z">>, <<"/", "%">>,
                  <<"/", "%", "e", "9">>}}

DevArgs == {u \in UrlArgs : u.kind # "number"} \cup EscapedArgs

\* the `url` parameter of the query: absent, or the text
QueryArgument(u) == IF u.kind = "undefined" THEN Null ELSE Str(UrlText(u))

CallVideoInfoApi ==
    /\ urlResult # Pending
    /\ apiResult = Pending
    /\ apiResult' = videoInfoApi(QueryArgument(urlParts))
    /\ UNCHANGED <<urlParts, urlResult, dpInput, dpResult, sfInput, sfResult, sfAgain,
                   lpInput, lpResult, afInput, afResult>>
    /\ UNCHANGED <<appVars, uiVars>>

InitDev ==
    /\ urlParts \in DevArgs /\ urlResult = Pending /\ apiResult = Pending
    /\ IdleParams /\ IdleName /\ IdlePath /\ IdleTempo /\ IdleApp

NextDev == CallValidateUrl \/ CallVideoInfoApi

SpecDev == InitDev /\ [][NextDev]_vars

InitParams ==
    /\ dpInput \in DownloadParams /\ dpResult = Pending
    /\ IdleUrl /\ IdleName /\ IdlePath /\ IdleTempo /\ IdleApp

NextParams == CallValidateDownloadParams

SpecParams == InitParams /\ [][NextParams]_vars

\* validateLocalFilePath called before or after the application has started
CallValidateLocalFilePath ==
    /\ lpResult = Pending
    /\ lpResult' = validateLocalFilePath(lpInput)
    /\ UNCHANGED <<lpInput, afInput, afResult, urlParts, urlResult, apiResult, dpInput, dpResult,
                   sfInput, sfResult, sfAgain>>
    /\ UNCHANGED <<appVars, uiVars>>

InitPath ==
    /\ lpInput \in LocalPathArgs /\ lpResult = Pending
    /\ IdleUrl /\ IdleParams /\ IdleName /\ IdleTempo
    /\ platform \in {"darwin", "linux"}
    /\ isDev = FALSE
    /\ appState = "starting"
    /\ ytDlpWrap = FALSE
    /\ tempDir = <<>>
    /\ activateHandler = FALSE
    /\ mainWindow = NoWindow
    /\ surfaces = [s \in SurfaceIds |-> [state |-> "none", url |-> <<>>]]
    /\ now = 0
    /\ files = InitialFiles \cup ProbedFiles
    /\ calls = <<>>
    /\ IdleUi

NextPath ==
    \/ \E outcome \in {"ok", "noBinary", "mkdirFails"} : lpResult = Pending /\ AppReady(outcome)
    \/ CallValidateLocalFilePath

SpecPath == InitPath /\ [][NextPath]_vars

\* sanitizeFilename called on a title, then on its own result
CallSanitizeFilename ==
    /\ sfResult = Pending
    /\ sfResult' = Return(sanitizeFilename(NameArgument(sfInput)))
    /\ UNCHANGED <<sfInput, sfAgain, urlParts, urlResult, apiResult, dpInput, dpResult,
                   lpInput, lpResult, afInput, afResult>>
    /\ UNCHANGED <<appVars, uiVars>>

CallSanitizeFilenameAgain ==
    /\ sfResult # Pending
    /\ sfAgain = Pending
    /\ sfAgain' = Return(sanitizeFilename(Str(sfResult.value)))
    /\ UNCHANGED <<sfInput, sfResult, urlParts, urlResult, apiResult, dpInput, dpResult,
                   lpInput, lpResult, afInput, afResult>>
    /\ UNCHANGED <<appVars, uiVars>>

InitName ==
    /\ sfInput \in NameArgs /\ sfResult = Pending /\ sfAgain = Pending
    /\ IdleUrl /\ IdleParams /\ IdlePath /\ IdleTempo /\ IdleApp

NextName == CallSanitizeFilename \/ CallSanitizeFilenameAgain

SpecName == InitName /\ [][NextName]_vars

(***************************************************************************)
(* The playback-speed filter                                               *)
(*   a speed is a number in hundredths; a stage of the chain is a ratio,   *)
(*   so that half of an odd number of hundredths is exact; the text        *)
(*   'atempo=a,atempo=b' is the sequence of its stages, null the empty one *)
(***************************************************************************)
Ratio(num, den) == [num |-> num, den |-> den]

\* variant: above 2.0 the second stage is the speed itself
getAtempoFilter_SecondStageWhole(speed) ==
    IF ~Truthy(speed) \/ speed = Num(100) THEN <<>>
    ELSE IF speed.n < 50
    THEN IF speed.n = 25 THEN <<Ratio(50, 100), Ratio(50, 100)>>
         ELSE <<Ratio(speed.n, 100)>>
    ELSE IF speed.n > 200 THEN <<Ratio(200, 100), Ratio(speed.n, 100)>>
    ELSE <<Ratio(speed.n, 100)>>

getAtempoFilter(speed) ==
    IF ~Truthy(speed) \/ speed = Num(100) THEN <<>>
    ELSE IF speed.n < 50
    THEN IF speed.n = 25 THEN <<Ratio(50, 100), Ratio(50, 100)>>
         ELSE <<Ratio(speed.n, 100)>>
    ELSE IF speed.n > 200 THEN <<Ratio(200, 100), Ratio(speed.n, 200)>>
    ELSE <<Ratio(speed.n, 100)>>

\* the filters download-mp3 gives the transcoder for the validated speed
audioFilters(playbackSpeedVal) ==
    IF playbackSpeedVal # Undefined /\ playbackSpeedVal # Num(100)
    THEN getAtempoFilter(playbackSpeedVal)
    ELSE <<>>

\* what validateDownloadParams can leave as playbackSpeed, and numbers next
\* to that range
AtempoSpeeds == {Undefined} \cup {Num(h) : h \in 0..401}

CallGetAtempoFilter ==
    /\ afResult = Pending
    /\ afResult' = Return(audioFilters(afInput))
    /\ UNCHANGED <<afInput, urlParts, urlResult, apiResult, dpInput, dpResult, sfInput, sfResult,
                   sfAgain, lpInput, lpResult>>
    /\ UNCHANGED <<appVars, uiVars>>

InitTempo ==
    /\ afInput \in AtempoSpeeds /\ afResult = Pending
    /\ IdleUrl /\ IdleParams /\ IdleName /\ IdlePath /\ IdleApp

NextTempo == CallGetAtempoFilter

SpecTempo == InitTempo /\ [][NextTempo]_vars

(***************************************************************************)
(* The application                                                         *)
(***************************************************************************)
Init ==
    /\ platform \in {"darwin", "linux"}
    /\ isDev \in BOOLEAN
    /\ NotStarted
    /\ IdleAll
    /\ IdleUi

Next ==
    \/ \E outcome \in {"ok", "noBinary", "mkdirFails"} : AppReady(outcome)
    \/ OpenOther
    \/ \E w \in Windows : CloseWindow(w)
    \/ Activate
    \/ \E w \in Windows, url \in NavigationTargets : Navigate(w, url)
    \/ Tick
    \/ \E channel \in Channels, sender \in SurfaceIds :
           \E args \in ArgsOf(channel) : Invoke(channel, sender, args)
    \/ \E i \in 1..MaxCalls, ok \in BOOLEAN : VideoInfoSettles(i, ok)
    \/ \E i \in 1..MaxCalls, title \in {<<>>, <<"t", "/", "2">>} : ProbeSettles(i, title)
    \/ \E i \in 1..MaxCalls : DurationSettles(i)
    \/ \E i \in 1..MaxCalls, filePath \in {<<>>, LocalMp3, LocalExe} : OpenDialogSettles(i, filePath)
    \/ \E i \in 1..MaxCalls, outcome \in {"written", "nothing", "failed", "partial"} :
           FetchSettles(i, outcome)
    \/ \E i \in 1..MaxCalls, outcome \in {"end", "endNoOutput", "error", "errorPartial"} :
           TranscodeSettles(i, outcome)
    \/ \E i \in 1..MaxCalls : \E savePath \in {<<>>} \cup {SavePath(calls[j]) : j \in 1..Len(calls)} :
           SaveDialogSettles(i, savePath)

Spec == Init /\ [][Next]_vars

(***************************************************************************)
(* The sender check over several calls: windows open, navigate and close,  *)
(* and the allow-list changes, between calls that settle without          *)
(* suspending                                                              *)
(***************************************************************************)
\* calls whose handlers settle before they return
SettlingCalls ==
    {<<"show-item-in-folder", [NoArgs EXCEPT !.filePath = Str(f)]>> : f \in {SavedMp3, LocalMp3}}
    \cup {<<"download-mp3", [NoArgs EXCEPT !.url = Str(PublicUrl), !.startTime = Num(0 - 100)]>>}

InvokeSettling(channel, sender, args) ==
    /\ appState = "ready"
    /\ IsOpen(sender)
    /\ Len(calls) < MaxAuthCalls
    /\ \E step \in {Handle(channel, [sender |-> sender], NewCall(channel, sender, args))} :
           /\ calls' = Append(calls, step.call)
           /\ files' = step.fs
    /\ UNCHANGED <<platform, isDev, appState, ytDlpWrap, tempDir, activateHandler,
                   mainWindow, surfaces, now>>
    /\ UNCHANGED <<validatorVars, uiVars>>

NextAuth ==
    \/ \E outcome \in {"ok", "noBinary", "mkdirFails"} : AppReady(outcome)
    \/ OpenOther
    \/ \E w \in Windows : CloseWindow(w)
    \/ Activate
    \/ \E w \in Windows, url \in NavigationTargets : Navigate(w, url)
    \/ DistIndexAppears
    \/ \E sender \in SurfaceIds, call \in SettlingCalls :
           InvokeSettling(call[1], sender, call[2])

SpecAuth == Init /\ [][NextAuth]_vars

(***************************************************************************)
(* Jobs on local sources, one of them a file that an earlier run left in   *)
(* the temp directory (getAllowedBasePaths lists tempDir as a base)        *)
(***************************************************************************)
LeftoverMp3 == TempDirPath \o <<"/", "l">> \o txtMp3

LocalSourceArgs ==
    {[NoArgs EXCEPT !.sourceFilePath = Str(f)] : f \in {LocalMp3, LeftoverMp3}}
    \cup {[NoArgs EXCEPT !.sourceFilePath = Str(LeftoverMp3), !.title = Str(<<"t">>)]}
    \cup {[NoArgs EXCEPT !.sourceFilePath = Str(LocalMp3), !.startTime = t[1], !.endTime = t[2]] :
              t \in {<<Undefined, Num(1000)>>, <<Num(500), Num(1000)>>, <<Num(1000), Num(500)>>,
                     <<Num(0), Undefined>>}}

InitLocal ==
    /\ platform \in {"darwin", "linux"}
    /\ isDev = FALSE
    /\ appState = "starting"
    /\ ytDlpWrap = FALSE
    /\ tempDir = <<>>
    /\ activateHandler = FALSE
    /\ mainWindow = NoWindow
    /\ surfaces = [s \in SurfaceIds |-> [state |-> "none", url |-> <<>>]]
    /\ now = 0
    /\ files = InitialFiles
                 \cup {Entry(UserDataDir, "dir", 0), Entry(TempDirPath, "dir", 0),
                       Entry(LeftoverMp3, "file", 0)}
    /\ calls = <<>>
    /\ IdleAll
    /\ IdleUi

NextLocal ==
    \/ AppReady("ok")
    \/ \E w \in Windows : CloseWindow(w)
    \/ Tick
    \/ \E sender \in Windows, args \in LocalSourceArgs : Invoke("download-mp3", sender, args)
    \/ \E i \in 1..MaxCalls, outcome \in {"end", "endNoOutput", "error", "errorPartial"} :
           TranscodeSettles(i, outcome)
    \/ \E i \in 1..MaxCalls : \E savePath \in {<<>>} \cup {SavePath(calls[j]) : j \in 1..Len(calls)} :
           SaveDialogSettles(i, savePath)

SpecLocal == InitLocal /\ [][NextLocal]_vars

(***************************************************************************)
(* Several jobs at once: a second download-mp3 call arrives while the      *)
(* first is suspended at its probe, fetch, transcoder or save dialog       *)
(***************************************************************************)
JobArgs ==
    {[NoArgs EXCEPT !.sourceFilePath = Str(LocalMp3)],
     [NoArgs EXCEPT !.url = Str(PublicUrl), !.title = Str(<<"t">>)],
     [NoArgs EXCEPT !.url = Str(PublicUrl)],
     [NoArgs EXCEPT !.url = Str(PublicUrl), !.title = Str(<<" ">>)]}

InvokeJob(sender, args) ==
    /\ appState = "ready"
    /\ IsOpen(sender)
    /\ Len(calls) < MaxJobs
    /\ \E step \in {Handle("download-mp3", [sender |-> sender],
                            NewCall("download-mp3", sender, args))} :
           /\ calls' = Append(calls, step.call)
           /\ files' = step.fs
    /\ UNCHANGED <<platform, isDev, appState, ytDlpWrap, tempDir, activateHandler,
                   mainWindow, surfaces, now>>
    /\ UNCHANGED <<validatorVars, uiVars>>

InitJobs == IdleApp /\ IdleAll

NextJobs ==
    \/ AppReady("ok")
    \/ Tick
    \/ \E sender \in Windows, args \in JobArgs : InvokeJob(sender, args)
    \/ \E i \in 1..MaxJobs, title \in {<<>>, <<"t", "/", "2">>} : ProbeSettles(i, title)
    \/ \E i \in 1..MaxJobs, outcome \in {"written", "nothing", "failed", "partial"} :
           FetchSettles(i, outcome)
    \/ \E i \in 1..MaxJobs, outcome \in {"end", "endNoOutput", "error", "errorPartial"} :
           TranscodeSettles(i, outcome)
    \/ \E i \in 1..MaxJobs : \E savePath \in {<<>>} \cup {SavePath(calls[j]) : j \in 1..Len(calls)} :
           SaveDialogSettles(i, savePath)

SpecJobs == InitJobs /\ [][NextJobs]_vars

(***************************************************************************)
(* A job to its end: the probe, the fetch and the transcoder terminate and *)
(* the save dialog is answered, each a step that is taken once it can be   *)
(***************************************************************************)
NextLive ==
    \/ \E outcome \in {"ok", "noBinary", "mkdirFails"} : AppReady(outcome)
    \/ \E w \in Windows : CloseWindow(w)
    \/ Activate
    \/ Tick
    \/ \E sender \in Windows, args \in ArgsOf("download-mp3") :
           Invoke("download-mp3", sender, args)
    \/ \E i \in 1..MaxCalls, title \in {<<>>, <<"t", "/", "2">>} : ProbeSettles(i, title)
    \/ \E i \in 1..MaxCalls, outcome \in {"written", "nothing", "failed", "partial"} :
           FetchSettles(i, outcome)
    \/ \E i \in 1..MaxCalls, outcome \in {"end", "endNoOutput", "error", "errorPartial"} :
           TranscodeSettles(i, outcome)
    \/ \E i \in 1..MaxCalls : \E savePath \in {<<>>} \cup {SavePath(calls[j]) : j \in 1..Len(calls)} :
           SaveDialogSettles(i, savePath)

\* call i, waiting at the stage pc, leaves it: the step of the process that
\* ends or of the dialog that is answered. (The first disjunct implies the
\* second; it names one such step outright.)
Leaves(i, pc) ==
    /\ Running(i, pc)
    /\ \/ /\ calls' = [calls EXCEPT ![i].pc = "rejected"]
          /\ UNCHANGED <<platform, isDev, appState, ytDlpWrap, tempDir, activateHandler,
                         mainWindow, surfaces, now, files>>
          /\ UNCHANGED <<validatorVars, uiVars>>
       \/ calls'[i].pc # pc

\* the title probe, the fetch and the transcoder terminate and the save
\* dialog is answered
ProcessesTerminate ==
    \A i \in 1..MaxCalls :
        \A pc \in {"probe", "fetch", "transcode", "saveDialog"} : WF_vars(Leaves(i, pc))

SpecLive == Init /\ [][NextLive]_vars /\ ProcessesTerminate

(***************************************************************************)
(* The title of a job: download-mp3 called with each kind of title         *)
(***************************************************************************)
TitleArgs ==
    {[NoArgs EXCEPT !.url = Str(PublicUrl), !.title = t] :
         t \in {Undefined, Null, Num(100), Str(<<>>), Str(<<" ">>), Str(<<"t">>), Str(<<" ", "t">>)}}
    \cup {[NoArgs EXCEPT !.url = Str(LoopbackUrl)]}
    \cup {[NoArgs EXCEPT !.sourceFilePath = Str(LocalMp3), !.title = t] :
              t \in {Undefined, Str(<<" ">>), Str(<<"t">>)}}

NextTitle ==
    \/ \E outcome \in {"ok", "noBinary"} : AppReady(outcome)
    \/ Tick
    \/ \E sender \in Windows, args \in TitleArgs : Invoke("download-mp3", sender, args)
    \/ \E i \in 1..MaxCalls, title \in {<<>>, <<"t", "/", "2">>} : ProbeSettles(i, title)
    \/ \E i \in 1..MaxCalls, outcome \in {"written", "nothing", "failed", "partial"} :
           FetchSettles(i, outcome)
    \/ \E i \in 1..MaxCalls, outcome \in {"end", "endNoOutput", "error", "errorPartial"} :
           TranscodeSettles(i, outcome)
    \/ \E i \in 1..MaxCalls : \E savePath \in {<<>>} \cup {SavePath(calls[j]) : j \in 1..Len(calls)} :
           SaveDialogSettles(i, savePath)

SpecTitle == InitJobs /\ [][NextTitle]_vars

(***************************************************************************)
(* The wizard of the renderer (app.tsx). Of the React state the fields     *)
(* that the steps and the times depend on are kept; titles, status texts,  *)
(* the text of the time inputs and the playback speed are left out. Times  *)
(* are numbers in hundredths of a second. A handler of a user event reads  *)
(* the state of the last render and its updates are rendered before the    *)
(* next event; an update made from a timer or a promise is rendered later. *)
(***************************************************************************)
\* bounds of the wizard
MaxFetches == 1      \* requests of one kind in flight at a time

MaxSeconds == 2      \* the longest time typed or dragged, in seconds

UiUrls == {<<>>, <<"u">>}

UiTimes == {Num(100 * k) : k \in 0..MaxSeconds}

\* what a video-info request can answer: no duration, or one (main.js 441
\* turns a duration of 0 into null)
UrlDurations == {Null, Num(100), Num(200)}

\* what get-local-file-info can answer (main.js 204-223): no duration, 0, or more
FileDurations == {Null, Num(0), Num(200)}

\* const dur = state.durationSeconds ?? 0
Dur(st) == IF st.durationSeconds.t = "null" THEN 0 ELSE st.durationSeconds.n

\* effectiveDur, effectiveEndVal and formDisabled with window.electronAPI present
effectiveDur(st) == IF Dur(st) > 0 THEN Dur(st) ELSE 0

effectiveEndVal(st) ==
    IF Dur(st) > 0 THEN (IF st.endSeconds.t = "null" THEN Dur(st) ELSE st.endSeconds.n) ELSE 0

formDisabled(st) == Dur(st) <= 0

hasSource(st) ==
    \/ st.currentStep # 1
    \/ st.sourceType = "url" /\ trim(st.url) # <<>>
    \/ st.sourceType = "file" /\ trim(st.sourceFilePath) # <<>>

\* the effect on [sourceType, url]: its cleanup clears the timer, its body
\* sets one for a URL that is not blank
DebounceEffect(before, after, p) ==
    IF before.sourceType = after.sourceType /\ before.url = after.url THEN p
    ELSE [p EXCEPT !.timer = (after.sourceType = "url" /\ trim(after.url) # <<>>)]

\* a user event: its updates are rendered, and the effects run, at once
Flush(st, p) ==
    /\ wizard' = st
    /\ rendered' = st
    /\ pending' = DebounceEffect(rendered, st, p)
    /\ UNCHANGED <<validatorVars, appVars>>

\* an update made outside a user event
Later(st, p) ==
    /\ wizard' = st
    /\ pending' = p
    /\ UNCHANGED <<rendered, validatorVars, appVars>>

\* React renders the pending updates
Render ==
    /\ rendered # wizard
    /\ rendered' = wizard
    /\ pending' = DebounceEffect(rendered, wizard, pending)
    /\ UNCHANGED <<wizard, validatorVars, appVars>>

\* onChange of the URL input
EditUrl(value) ==
    /\ rendered.currentStep = 1 /\ rendered.sourceType = "url"
    /\ Flush(IF trim(value) # <<>> THEN [wizard EXCEPT !.url = value]
             ELSE [wizard EXCEPT !.url = value, !.durationSeconds = Null,
                                 !.endSeconds = Null, !.startSeconds = Num(0)],
             pending)

\* onValueChange of the tabs
SwitchTab(v) ==
    /\ rendered.currentStep = 1
    /\ IF v = "url" THEN rendered.sourceFilePath = <<>> ELSE trim(rendered.url) = <<>>
    /\ Flush(IF v = "url" THEN [wizard EXCEPT !.sourceType = v, !.sourceFilePath = <<>>]
             ELSE [wizard EXCEPT !.sourceType = v, !.url = <<>>],
             pending)

\* the open-file dialog answers with a path
ChooseFile ==
    /\ rendered.currentStep = 1 /\ rendered.sourceType = "file"
    /\ wizard.sourceFilePath = <<>>
    /\ Later([wizard EXCEPT !.sourceFilePath = <<"f">>], pending)

\* onChange of the Start input, secs being timeToSeconds(value)
EditStart(secs) ==
    /\ rendered.currentStep = 3 /\ ~formDisabled(rendered)
    /\ Flush(IF secs.t = "null" \/ secs.n < 0 \/ secs.n > effectiveDur(rendered) THEN wizard
             ELSE IF secs.n >= effectiveEndVal(rendered) THEN wizard
             ELSE [wizard EXCEPT !.startSeconds = secs],
             pending)

\* onChange of the End input
EditEnd(secs) ==
    /\ rendered.currentStep = 3 /\ ~formDisabled(rendered)
    /\ Flush(IF secs.t = "null" \/ secs.n < 0 \/ secs.n > effectiveDur(rendered) THEN wizard
             ELSE IF secs.n <= rendered.startSeconds.n THEN wizard
             ELSE [wizard EXCEPT !.endSeconds = secs],
             pending)

\* onValueChange of the range slider, whose thumbs lie in 0..effectiveDur
MoveSlider(s, end) ==
    /\ rendered.currentStep = 3 /\ effectiveDur(rendered) > 0
    /\ s.n <= effectiveDur(rendered) /\ end.n <= effectiveDur(rendered)
    /\ Flush(IF s.n < end.n THEN [wizard EXCEPT !.startSeconds = s, !.endSeconds = end]
             ELSE wizard,
             pending)

\* onClick of Back
Back ==
    /\ rendered.currentStep \in 2..4 /\ ~rendered.isLoading
    /\ Flush([wizard EXCEPT !.currentStep = @ - 1], pending)

\* handleReset
Reset ==
    /\ rendered.currentStep # 5 /\ ~rendered.isLoading
    /\ \/ rendered.currentStep = 6
       \/ trim(rendered.url) # <<>>
       \/ trim(rendered.sourceFilePath) # <<>>
    /\ Flush([initialState EXCEPT
                 !.sourceType = IF rendered.currentStep = 1 THEN rendered.sourceType ELSE "url"],
             pending)

Payload(st) ==
    [sent |-> TRUE, duration |-> st.durationSeconds,
     startTime |-> st.startSeconds, endTime |-> st.endSeconds]

\* variant: Continue leaves the trim step whatever the times are
OrderingCheckFails_Never(st) == FALSE

\* the test of handleNext at step 3
OrderingCheckFails(st) ==
    /\ st.currentStep = 3
    /\ st.durationSeconds.t # "null"
    /\ (st.endSeconds.t = "null" \/ st.endSeconds.n <= st.startSeconds.n)

\* runDownload with window.electronAPI present: the call of downloadMP3
runDownload(st, w, p) ==
    Flush([w EXCEPT !.isLoading = TRUE, !.currentStep = 5],
          [p EXCEPT !.job = TRUE, !.submitted = Payload(st)])

\* handleNext of the render st, up to its await or its end
handleNext(st, w, p) ==
    IF st.currentStep = 1
    THEN IF ~(st.sourceType = "url" /\ trim(st.url) # <<>>)
            /\ ~(st.sourceType = "file" /\ trim(st.sourceFilePath) # <<>>)
         THEN Flush(w, p)
         ELSE \E kind \in {IF st.sourceType = "file" THEN "nextFile" ELSE "nextUrl"} :
                  /\ p.fetches[kind] < MaxFetches
                  /\ Flush([w EXCEPT !.isFetchingVideoInfo = TRUE],
                           [p EXCEPT !.fetches[kind] = @ + 1])
    ELSE IF OrderingCheckFails(st) THEN Flush(w, p)
    ELSE IF st.currentStep < 4 THEN Flush([w EXCEPT !.currentStep = st.currentStep + 1], p)
    ELSE IF st.currentStep = 4 /\ ~st.isLoading THEN ~p.job /\ runDownload(st, w, p)
    ELSE Flush(w, p)

\* onClick of Continue
Continue_Click ==
    /\ rendered.currentStep <= 4
    /\ ~rendered.isLoading
    /\ ~(rendered.currentStep = 1 /\ rendered.isFetchingVideoInfo)
    /\ hasSource(rendered)
    /\ handleNext(rendered, wizard, pending)

\* Enter in the input of the step, or anywhere at step 4
Continue_Enter ==
    /\ \/ rendered.currentStep = 1 /\ rendered.sourceType = "url"
       \/ rendered.currentStep = 2
       \/ rendered.currentStep = 3 /\ ~formDisabled(rendered)
       \/ rendered.currentStep = 4
    /\ handleNext(rendered, wizard, pending)

\* the debounce timer runs out: fetchVideoInfo is called
TimerFires ==
    /\ pending.timer
    /\ pending.fetches["debounce"] < MaxFetches
    /\ Later(wizard, [pending EXCEPT !.timer = FALSE, !.fetches["debounce"] = @ + 1])

\* the update both fetches make of an answer
WithInfo(prev, duration) ==
    IF duration.t # "null"
    THEN [prev EXCEPT !.durationSeconds = duration, !.startSeconds = Num(0),
                      !.endSeconds = duration]
    ELSE prev

\* the request of the debounced effect is answered, or fails
DebouncedArrives(ok, duration) ==
    /\ pending.fetches["debounce"] > 0
    /\ Later(IF ok THEN WithInfo(wizard, duration)
             ELSE [wizard EXCEPT !.durationSeconds = Null, !.endSeconds = Null,
                                 !.startSeconds = Num(0)],
             [pending EXCEPT !.fetches["debounce"] = @ - 1])

\* the request of handleNext (made at step 1) is answered, and handleNext
\* goes on with the state it was called in; or it fails
NextArrives(kind, ok, duration) ==
    /\ kind \in {"nextUrl", "nextFile"}
    /\ pending.fetches[kind] > 0
    /\ duration \in (IF kind = "nextFile" THEN FileDurations ELSE UrlDurations)
    /\ Later(IF ok
             THEN [WithInfo(wizard, duration) EXCEPT !.isFetchingVideoInfo = FALSE,
                                                     !.currentStep = 2]
             ELSE [wizard EXCEPT !.isFetchingVideoInfo = FALSE],
             [pending EXCEPT !.fetches[kind] = @ - 1])

\* downloadMP3 resolves, or rejects
DownloadArrives(ok) ==
    /\ pending.job
    /\ Later(IF ok THEN [wizard EXCEPT !.currentStep = 6, !.isLoading = FALSE]
             ELSE [wizard EXCEPT !.currentStep = 4, !.isLoading = FALSE],
             [pending EXCEPT !.job = FALSE, !.submitted = NoPayload])

InitUi == IdleAll /\ IdleApp

NextUi ==
    \/ Render
    \/ \E value \in UiUrls : EditUrl(value)
    \/ \E v \in {"url", "file"} : SwitchTab(v)
    \/ ChooseFile
    \/ \E secs \in UiTimes \cup {Null} : EditStart(secs)
    \/ \E secs \in UiTimes \cup {Null} : EditEnd(secs)
    \/ \E s \in UiTimes, end \in UiTimes : MoveSlider(s, end)
    \/ Back
    \/ Reset
    \/ Continue_Click
    \/ Continue_Enter
    \/ TimerFires
    \/ \E ok \in BOOLEAN, duration \in UrlDurations : DebouncedArrives(ok, duration)
    \/ \E kind \in {"nextUrl", "nextFile"}, ok \in BOOLEAN,
          duration \in UrlDurations \cup FileDurations : NextArrives(kind, ok, duration)
    \/ \E ok \in BOOLEAN : DownloadArrives(ok)

SpecUi == InitUi /\ [][NextUi]_vars

(***************************************************************************)
(* Properties of validateUrl (SpecUrl)                                     *)
(***************************************************************************)
UrlCalled == urlResult # Pending

IsStringArg == urlParts.kind = "string"

\* the text has no white space of its own, so its trimmed form is UrlCore
TrimmedLength == Len(UrlCore(urlParts))

\* C4, as stated: every string of more than 2048 characters is rejected with
\* 'URL is too long', whatever it holds (white space included).
C4_AnyLongStringTooLong ==
    (UrlCalled /\ IsStringArg /\ Len(UrlText(urlParts)) > MAX_URL_LENGTH)
        => urlResult = Throw("URL is too long")

\* C4, amended: every string whose length after trimming white space exceeds
\* 2048 is rejected with 'URL is too long', whatever it holds.
C4_LongTrimmedTooLong ==
    (UrlCalled /\ IsStringArg /\ TrimmedLength > MAX_URL_LENGTH)
        => urlResult = Throw("URL is too long")

\* an over-long text that is no URL at all has been rejected for its length
C4_Witness ==
    /\ urlResult = Throw("URL is too long")
    /\ urlParts.scheme = <<>>
    /\ TrimmedLength > MAX_URL_LENGTH

IsHttpArg ==
    /\ IsStringArg
    /\ toLowerCase(urlParts.scheme) \in {txtHttp, txtHttps}
    /\ urlParts.sep = txtSlashes

\* C5: 'http://' followed by localhost, 127.0.0.1, 0.0.0.0, ::1 or [::1], in
\* any letter case, is rejected.
C5_LoopbackNamesRejected ==
    (/\ UrlCalled /\ IsStringArg
     /\ urlParts.scheme = txtHttp /\ urlParts.sep = txtSlashes /\ urlParts.lead = 0
     /\ urlParts.hostForm = "name"
     /\ toLowerCase(urlParts.name) \in LoopbackNames)
        => ~urlResult.ok

\* localhost written with an upper case letter has been rejected
C5_Witness ==
    /\ UrlCalled /\ ~urlResult.ok
    /\ urlParts.scheme = txtHttp /\ urlParts.fill = 0
    /\ urlParts.name # txtLocalhost
    /\ toLowerCase(urlParts.name) = txtLocalhost

\* 10.0.0.0/8, 172.16.0.0/12, 192.168.0.0/16 and 127.0.0.0/8
InPrivateOrLoopbackRange(o) ==
    \/ o[1] = 10
    \/ (o[1] = 172 /\ o[2] \div 16 = 1)
    \/ (o[1] = 192 /\ o[2] = 168)
    \/ o[1] = 127

\* C6: a URL whose host is an address of a private range or of 127.0.0.0/8,
\* written dotted or as one decimal 32-bit integer, is rejected; and the
\* numeric check itself classifies both writings as private, also above 2^31.
C6_PrivateIPv4Rejected ==
    (/\ IsHttpArg
     /\ urlParts.hostForm \in {"dotted", "decimal"}
     /\ InPrivateOrLoopbackRange(urlParts.octets))
        => /\ UrlCalled => ~urlResult.ok
           /\ isLoopbackOrPrivateIP(HostText(urlParts))

\* 192.168.x.x as a decimal integer (above 2^31) has been rejected
C6_Witness ==
    /\ UrlCalled /\ ~urlResult.ok /\ IsHttpArg
    /\ urlParts.hostForm = "decimal"
    /\ urlParts.octets[1] = 192 /\ urlParts.octets[2] = 168

\* C7: a URL whose host is an IPv4-mapped IPv6 loopback literal is rejected.
C7_MappedLoopbackRejected ==
    (/\ UrlCalled /\ IsHttpArg
     /\ urlParts.hostForm = "name"
     /\ urlParts.name \in MappedLoopbackLiterals)
        => ~urlResult.ok

\* C8: https with a dotted IPv4 host outside the private, loopback and
\* unspecified addresses is accepted, and the result is the argument without
\* its surrounding white space, exactly as written.
C8_PublicIPv4ReturnsTrimmed ==
    (/\ UrlCalled /\ IsStringArg
     /\ toLowerCase(urlParts.scheme) = txtHttps /\ urlParts.sep = txtSlashes
     /\ urlParts.hostForm = "dotted"
     /\ ~InPrivateOrLoopbackRange(urlParts.octets)
     /\ urlParts.octets # NoOctets)
        => urlResult = Return(UrlCore(urlParts))

\* an upper-case HTTPS URL between white space has been returned trimmed
C8_Witness ==
    /\ urlResult.ok
    /\ urlParts.lead > 0 /\ urlParts.trail > 0
    /\ urlParts.scheme # txtHttps
    /\ urlParts.hostForm = "dotted"
    /\ urlResult.value = UrlCore(urlParts)

\* the argument parses as an absolute URL whose scheme is not http or https
IsOtherSchemeUrl ==
    /\ IsStringArg
    /\ toLowerCase(urlParts.scheme) \notin {txtHttp, txtHttps}
    /\ URLParse(UrlCore(urlParts)).ok

\* C9, as stated: every absolute URL of another scheme is rejected with 'Only
\* HTTP and HTTPS URLs are allowed'.
C9_OtherSchemeMessage ==
    (UrlCalled /\ IsOtherSchemeUrl)
        => urlResult = Throw("Only HTTP and HTTPS URLs are allowed")

\* C9, amended: every absolute URL of another scheme is rejected; with 'Only
\* HTTP and HTTPS URLs are allowed' when its trimmed text has at most 2048
\* characters (a longer one is rejected for its length).
C9_OtherSchemeRejected ==
    (UrlCalled /\ IsOtherSchemeUrl)
        => /\ ~urlResult.ok
           /\ TrimmedLength <= MAX_URL_LENGTH
                => urlResult = Throw("Only HTTP and HTTPS URLs are allowed")

\* ftp://localhost has been rejected for its scheme, not for its host
C9_Witness ==
    /\ urlResult = Throw("Only HTTP and HTTPS URLs are allowed")
    /\ toLowerCase(urlParts.scheme) = <<"f", "t", "p">>
    /\ urlParts.name = txtLocalhost

(***************************************************************************)
(* Properties of validateDownloadParams (SpecParams)                       *)
(***************************************************************************)
ParamsCalled == dpResult # Pending

\* a number of [0, 604800]
IsTimeInRange(v) == v.t = "number" /\ v.n >= 0 /\ v.n <= MAX_DURATION_SECONDS * 100

\* 604801, -1 and beyond; values that are no number; infinite values
IsBadTime(v) ==
    \/ (v.t = "number" /\ (v.n < 0 \/ v.n > MAX_DURATION_SECONDS * 100))
    \/ v \in {NaN, Str(<<"a", "b", "c">>), Infinity, NegInfinity}

IsAbsent(v) == v \in {Undefined, Null}

IsSpeedInRange(v) == v.t = "number" /\ v.n >= 25 /\ v.n <= 400

IsTimeAcceptable(v) == IsTimeInRange(v) \/ IsAbsent(v)

\* what C11 says of the arguments: a speed of [0.25, 4] is accepted, 0.24 and
\* 4.01 are rejected with the speed message, the number 1 is left out
SpeedAcceptedOrRejected ==
    /\ (IsSpeedInRange(dpInput.playbackSpeed)
          /\ IsTimeAcceptable(dpInput.startTime) /\ IsTimeAcceptable(dpInput.endTime))
            => dpResult.ok
    /\ (dpInput.playbackSpeed \in {Num(24), Num(401)}
          /\ IsTimeAcceptable(dpInput.startTime) /\ IsTimeAcceptable(dpInput.endTime))
            => dpResult = Throw("Playback speed must be between 0.25 and 4")
    /\ (dpInput.playbackSpeed = Num(100) /\ dpResult.ok)
            => dpResult.value.playbackSpeed = Undefined

\* C11, as stated: a speed of [0.25, 4] is accepted; 0.24 and 4.01 are
\* rejected with 'Playback speed must be between 0.25 and 4'; exactly 1 is
\* accepted and omitted; a returned object never carries a playbackSpeed equal
\* to 1 and never one outside [0.25, 4].
C11_SpeedNeverOne ==
    ParamsCalled =>
        /\ SpeedAcceptedOrRejected
        /\ dpResult.ok
             => \/ dpResult.value.playbackSpeed = Undefined
                \/ /\ IsSpeedInRange(dpResult.value.playbackSpeed)
                   /\ dpResult.value.playbackSpeed # Num(100)

\* C11, amended: as above, but a returned playbackSpeed lies in [0.25, 4] and
\* equals 1 only when the argument was not the number 1 itself but a value
\* that Number() turns into 1 (the string '1', true).
C11_SpeedBounds ==
    ParamsCalled =>
        /\ SpeedAcceptedOrRejected
        /\ dpResult.ok
             => \/ dpResult.value.playbackSpeed = Undefined
                \/ /\ IsSpeedInRange(dpResult.value.playbackSpeed)
                   /\ dpResult.value.playbackSpeed = Num(100)
                        => dpInput.playbackSpeed.t # "number"

\* the number 1 has been left out of an object that carries both times
C11_Witness ==
    /\ dpResult.ok
    /\ dpInput.playbackSpeed = Num(100)
    /\ dpResult.value.playbackSpeed = Undefined
    /\ IsTimeInRange(dpResult.value.startTime)
    /\ IsTimeInRange(dpResult.value.endTime)

(***************************************************************************)
(* Properties of the sender check (Spec)                                   *)
(***************************************************************************)
\* what isAllowedSender returned for a call, from what the call saw
AllowedAtCall(c) ==
    /\ c.mainWindowAtCall # NoWindow
    /\ c.sender = c.mainWindowAtCall
    /\ MatchesAllowedOrigin(c.senderUrl)

Unauthorized(c) == c.pc = "rejected" /\ c.error = "Unauthorized"

\* the call that the step has just added, if any
CallAdded == Len(calls') = Len(calls) + 1

\* C1: on each of the five channels a call whose sender is not allowed
\* fails with 'Unauthorized', and it has run no validator, started no
\* process, opened no dialog, sent no processing phase and left every file
\* as it was.
C1_UnauthorizedDoesNothing ==
    [][(CallAdded /\ ~AllowedAtCall(calls'[Len(calls')]))
        => /\ Unauthorized(calls'[Len(calls')])
           /\ calls'[Len(calls')].effects = <<>>
           /\ files' = files]_vars

\* a download of a public URL asked by the surface that is not the main
\* window has been turned down
C1_Witness ==
    \E i \in 1..Len(calls) :
        /\ calls[i].channel = "download-mp3"
        /\ calls[i].args.url = Str(PublicUrl)
        /\ calls[i].sender = OtherSurface
        /\ ~AllowedAtCall(calls[i])
        /\ Unauthorized(calls[i])
        /\ calls[i].effects = <<>>

\* C2: a sender that is not the registered main window is rejected even
\* when its location matches an allowed origin, and every sender is
\* rejected while no main window is registered.
C2_OnlyMainWindow ==
    /\ \A s \in SurfaceIds :
           (IsOpen(s) /\ (mainWindow = NoWindow \/ s # mainWindow))
               => ~isAllowedSender([sender |-> s])
    /\ \A i \in 1..Len(calls) :
           (calls[i].mainWindowAtCall = NoWindow \/ calls[i].sender # calls[i].mainWindowAtCall)
               => Unauthorized(calls[i])

\* while a main window is registered, the other surface shows an allowed
\* location and has had a call turned down
C2_Witness ==
    /\ mainWindow \in Windows
    /\ IsOpen(OtherSurface)
    /\ MatchesAllowedOrigin(surfaces[OtherSurface].url)
    /\ ~isAllowedSender([sender |-> OtherSurface])
    /\ \E i \in 1..Len(calls) :
           /\ calls[i].sender = OtherSurface
           /\ calls[i].mainWindowAtCall \in Windows
           /\ MatchesAllowedOrigin(calls[i].senderUrl)
           /\ Unauthorized(calls[i])

\* the origin of a location is allow-listed: in a development build scheme,
\* host and port are those of http://localhost:5173 or
\* http://127.0.0.1:5173, in a packaged build the scheme is file
HasAllowListedOrigin(url) ==
    IF isDev
    THEN \E origin \in getAllowedOrigins :
             URLParse(url).ok /\ startsWith(URLParse(url).href, origin \o <<"/">>)
    ELSE URLParse(url).ok /\ URLParse(url).protocol = <<"f", "i", "l", "e", ":">>

\* C3: the main window is accepted only while its location has exactly an
\* allow-listed origin; a location that merely begins with the text of an
\* allowed origin (a longer port such as 51730) is rejected.
C3_ExactOriginOnly ==
    /\ \A s \in SurfaceIds :
           (IsOpen(s) /\ isAllowedSender([sender |-> s]))
               => HasAllowListedOrigin(surfaces[s].url)
    /\ \A i \in 1..Len(calls) :
           ~Unauthorized(calls[i]) => HasAllowListedOrigin(calls[i].senderUrl)

(***************************************************************************)
(* Properties of sanitizeFilename (SpecName)                               *)
(***************************************************************************)
NameCalled == sfResult # Pending

NameCalledAgain == sfAgain # Pending

\* C12: sanitizeFilename applied to its own result returns that result, for
\* every string, also one of more than 200 characters whose 200th character
\* after stripping and collapsing is a space.
C12_Idempotent == NameCalledAgain => sfAgain.value = sfResult.value

\* the characters a file name must not hold: < > : " / \ | ? *
ForbiddenInNames == {"<", ">", ":", "\"", "/", "\\", "|", "?", "*"}

\* C13: a non-string or empty title gives 'audio'; every string gives a
\* non-empty text of at most 200 characters without < > : " / \ | ? *, and
\* 'audio' when only such characters and white space were given.
C13_Total ==
    NameCalled =>
        /\ (sfInput.kind # "string" \/ NameText(sfInput) = <<>>) => sfResult.value = txtAudio
        /\ sfResult.ok
        /\ sfResult.value # <<>>
        /\ Len(sfResult.value) <= MAX_FILENAME_LENGTH
        /\ \A i \in 1..Len(sfResult.value) : sfResult.value[i] \notin ForbiddenInNames
        /\ (sfInput.kind = "string"
             /\ \A i \in 1..Len(NameText(sfInput)) :
                    NameText(sfInput)[i] \in ForbiddenInNames \/ IsWhiteSpace(NameText(sfInput)[i]))
                => sfResult.value = txtAudio

\* a title of more than 200 characters with a backslash has been cut to 200
C13_Witness ==
    /\ NameCalled
    /\ sfInput.kind = "string"
    /\ Len(NameText(sfInput)) > MAX_FILENAME_LENGTH
    /\ \E i \in 1..Len(NameText(sfInput)) : NameText(sfInput)[i] = "\\"
    /\ Len(sfResult.value) = MAX_FILENAME_LENGTH

(***************************************************************************)
(* Properties of validateLocalFilePath (SpecPath)                          *)
(***************************************************************************)
PathCalled == lpResult # Pending

IsPathText == lpInput.t = "string" /\ lpInput.s # <<>>

\* the extension of the path as the validator reads it, in lower case
ExtensionGiven == toLowerCase(PathExtname(PathNormalize(trim(lpInput.s))))

\* C14: a path whose extension, compared without regard to letter case, is
\* not .mp3 or .mp4 is rejected with 'Only MP3 and MP4 files are allowed',
\* whether or not it lies under an allowed base and whether or not it names
\* an existing file; with an allowed extension that message is never given.
C14_ExtensionFirst ==
    (PathCalled /\ IsPathText) =>
        (ExtensionGiven \notin {txtMp3, txtMp4}
            <=> lpResult = Throw("Only MP3 and MP4 files are allowed"))

\* an existing file under the home directory has been rejected for its
\* extension
C14_Witness ==
    /\ lpResult = Throw("Only MP3 and MP4 files are allowed")
    /\ lpInput = Str(LocalExe)
    /\ statSync(files, LocalExe) = "file"

\* the home directory, the temporary directory when it is set and exists,
\* and /Volumes on macOS
BasesNow ==
    {HomeDir}
    \cup {d \in {tempDir} : d # <<>> /\ \E e \in files : e.path = d /\ e.kind = "dir"}
    \cup {d \in {VolumesDir} : platform = "darwin"}

\* p is base or lies under base, counted in whole segments
NestedUnder(p, base) ==
    /\ Len(p) >= Len(base)
    /\ SubSeq(p, 1, Len(base)) = base
    /\ Len(p) > Len(base) => p[Len(base) + 1] = "/"

HasDotSegment(p) == \E seg \in {<<".">>, <<".", ".">>} : \E i \in 1..Len(split(p, "/")) : split(p, "/")[i] = seg

\* C15: every path returned is free of '.' and '..' and is an allowed base or
\* lies under one by whole segments (home, the existing temporary directory,
\* /Volumes on macOS only); a path with an allowed extension that resolves
\* outside every base, a sibling such as /ux of base /u included, is rejected
\* with 'File path is not in an allowed directory'.
C15_Confined ==
    (PathCalled /\ IsPathText) =>
        /\ lpResult.ok
             => /\ ~HasDotSegment(lpResult.value)
                /\ \E base \in BasesNow : NestedUnder(lpResult.value, base)
        /\ (ExtensionGiven \in {txtMp3, txtMp4}
             /\ \A base \in BasesNow : ~NestedUnder(PathResolve(trim(lpInput.s)), base))
                => lpResult = Throw("File path is not in an allowed directory")

\* an existing .mp3 in a sibling of the home directory, reached through '..',
\* has been rejected
C15_Witness ==
    /\ lpResult = Throw("File path is not in an allowed directory")
    /\ PathResolve(trim(lpInput.s)) = <<"/", "u", "x", "/", "a">> \o txtMp3
    /\ HasDotSegment(lpInput.s)
    /\ statSync(files, lpInput.s) = "file"

(***************************************************************************)
(* Properties of download-mp3 and show-item-in-folder (Spec)               *)
(***************************************************************************)
IsDownload(c) == c.channel = "download-mp3"

HasEffect(c, kind, detail) == \E k \in 1..Len(c.effects) : c.effects[k] = Effect(kind, detail)

\* the files of the temporary directory whose name holds the job's timestamp
JobFilesIn(fs, c) ==
    {e \in fs : /\ e.kind = "file"
                /\ tempDir # <<>>
                /\ Dirname(e.path) = PathResolve(tempDir)
                /\ includes(LastSegment(e.path), TimestampText(c.timestamp))}

\* C16: once a download-mp3 call has settled, with a result or with any
\* failure, no file whose name holds the job's identifier is left in the
\* temporary directory.
C16_NoTempArtifactRemains ==
    \A i \in 1..Len(calls) :
        (IsDownload(calls[i]) /\ Settled(calls[i])) => JobFilesIn(files, calls[i]) = {}

\* the fetch process of call i fails in this step
FetchFails(i) == \E outcome \in {"failed", "partial"} : FetchSettles(i, outcome)

\* C17: when the fetch process of a job fails, the call is rejected with the
\* error the fetch threw, no file that holds the job's identifier is left in
\* the temporary directory, and the transcoder has not been started.
C17_FetchFailureSwept ==
    [][\A i \in 1..Len(calls) :
          FetchFails(i)
              => /\ calls'[i].pc = "rejected"
                 /\ calls'[i].error = "yt-dlp failed"
                 /\ JobFilesIn(files', calls'[i]) = {}
                 /\ ~HasEffect(calls'[i], "process", "ffmpeg")]_vars

\* the call was given times the validator accepts with endTime - startTime <= 0
NonPositiveSpan(c) ==
    /\ c.args.startTime.t = "number" /\ c.args.endTime.t = "number"
    /\ c.args.startTime.n >= 0 /\ c.args.endTime.n >= 0
    /\ c.args.endTime.n - c.args.startTime.n <= 0

\* C18: the transcoder is never given a duration that is zero or negative;
\* a job whose accepted endTime - startTime is <= 0 (startTime 10, endTime 5)
\* is started on its validated local source without a duration, seeking to
\* its startTime.
C18_NoNonPositiveDuration ==
    \A i \in 1..Len(calls) :
        IsDownload(calls[i]) =>
            /\ calls[i].command.duration # Undefined => calls[i].command.duration.n > 0
            /\ (NonPositiveSpan(calls[i]) /\ ~Unauthorized(calls[i])
                 /\ calls[i].args.sourceFilePath = Str(LocalMp3))
                    => /\ HasEffect(calls[i], "process", "ffmpeg")
                       /\ calls[i].command.duration = Undefined
                       /\ calls[i].command.seekInput = calls[i].args.startTime

\* a job with startTime 10 and endTime 5 has started the transcoder
C18_Witness ==
    \E i \in 1..Len(calls) :
        /\ IsDownload(calls[i])
        /\ calls[i].args.startTime = Num(1000) /\ calls[i].args.endTime = Num(500)
        /\ HasEffect(calls[i], "process", "ffmpeg")
        /\ calls[i].command = [seekInput |-> Num(1000), duration |-> Undefined]

IsShowItem(c) == c.channel = "show-item-in-folder"

\* the path given to show-item-in-folder, resolved
ShownPath(c) == PathResolve(trim(c.args.filePath.s))

\* C19: the file manager is opened only for a path that, with '.' and '..'
\* resolved, is the Downloads directory or lies under it by whole segments,
\* and that exists; an allowed sender's path outside it is rejected with
\* 'Path must be in the Downloads folder'.
C19_OnlyInDownloads ==
    \A i \in 1..Len(calls) :
        IsShowItem(calls[i]) =>
            /\ HasEffect(calls[i], "shell", "showItemInFolder")
                 => /\ NestedUnder(ShownPath(calls[i]), DownloadsDir)
                    /\ \E e \in files : e.path = ShownPath(calls[i])
            /\ (~Unauthorized(calls[i]) /\ ~NestedUnder(ShownPath(calls[i]), DownloadsDir))
                 => /\ calls[i].pc = "rejected"
                    /\ calls[i].error = "Path must be in the Downloads folder"

\* an existing file reached from the Downloads directory through '..' has
\* been refused
C19_Witness ==
    \E i \in 1..Len(calls) :
        /\ IsShowItem(calls[i])
        /\ startsWith(calls[i].args.filePath.s, DownloadsDir \o <<"/", ".", ".">>)
        /\ ShownPath(calls[i]) = LocalMp3
        /\ \E e \in files : e.path = LocalMp3
        /\ calls[i].error = "Path must be in the Downloads folder"

\* sourceFilePath is a string with a character that is not white space
LocalSourceGiven(c) ==
    /\ c.args.sourceFilePath.t = "string"
    /\ \E k \in 1..Len(c.args.sourceFilePath.s) : ~IsWhiteSpace(c.args.sourceFilePath.s[k])

\* the call got past the sender check and the parameter validator
JobStarted(c) ==
    /\ IsDownload(c)
    /\ ~Unauthorized(c)
    /\ c.error \notin {"Invalid start time", "Invalid end time",
                        "Playback speed must be between 0.25 and 4"}

\* C20: a job given a non-blank sourceFilePath validates it as a local path
\* and neither validates the url nor runs the downloader, also when a url
\* is given as well; any other job validates the url and no local path, and
\* has run the downloader before it starts the transcoder.
C20_OneActiveSource ==
    \A i \in 1..Len(calls) :
        JobStarted(calls[i]) =>
            IF LocalSourceGiven(calls[i])
            THEN /\ HasEffect(calls[i], "validator", "validateLocalFilePath")
                 /\ ~HasEffect(calls[i], "validator", "validateUrl")
                 /\ ~HasEffect(calls[i], "process", "yt-dlp")
                 /\ ~HasEffect(calls[i], "process", "getVideoInfo")
            ELSE /\ HasEffect(calls[i], "validator", "validateUrl")
                 /\ ~HasEffect(calls[i], "validator", "validateLocalFilePath")
                 /\ HasEffect(calls[i], "process", "ffmpeg")
                      => HasEffect(calls[i], "process", "yt-dlp")

\* a job given both a url and a local file has gone to the transcoder on the
\* local file
C20_Witness ==
    \E i \in 1..Len(calls) :
        /\ JobStarted(calls[i])
        /\ calls[i].args.url = Str(PublicUrl)
        /\ calls[i].args.sourceFilePath = Str(LocalMp3)
        /\ calls[i].downloadedFilePath = LocalMp3
        /\ HasEffect(calls[i], "process", "ffmpeg")
        /\ ~HasEffect(calls[i], "validator", "validateUrl")

(***************************************************************************)
(* Properties of get-video-info                                            *)
(***************************************************************************)
IsVideoInfo(c) == c.channel = "get-video-info"

\* C21: a get-video-info call that fails after its URL was accepted is
\* rejected with the one fixed generic message, whether the probe ran and
\* failed or could not be started; a call whose URL the validator rejects
\* carries the validator's message and has started no probe.
C21_ProbeErrorHidden ==
    \A i \in 1..Len(calls) :
        (IsVideoInfo(calls[i]) /\ calls[i].pc = "rejected" /\ ~Unauthorized(calls[i])) =>
            IF calls[i].args.url = Str(LoopbackUrl)
            THEN /\ calls[i].error = "Localhost URLs are not allowed"
                 /\ ~HasEffect(calls[i], "process", "getVideoInfo")
            ELSE calls[i].error = "This link isn't supported or couldn't be reached."

\* a probe was started for an accepted URL and failed
C21_Witness ==
    \E i \in 1..Len(calls) :
        /\ IsVideoInfo(calls[i])
        /\ calls[i].args.url.t = "string" /\ calls[i].args.url.s = PublicUrl
        /\ HasEffect(calls[i], "process", "getVideoInfo")
        /\ calls[i].pc = "rejected"
        /\ calls[i].error = UnsupportedLink

(***************************************************************************)
(* One rejection for every cause                                           *)
(***************************************************************************)
\* what the caller of a settled call can observe
Response(c) == [pc |-> c.pc, error |-> c.error, value |-> c.value, effects |-> c.effects]

\* C22: a call from a sender that fails the sender check (no main window
\* registered, another surface, or a location off the allow-list) settles
\* at once with one and the same response, whatever the channel and
\* whatever the arguments, valid or not.
C22_SameRejection ==
    [][\A s \in SurfaceIds :
           (CallAdded /\ calls'[Len(calls')].sender = s /\ ~isAllowedSender([sender |-> s]))
               => Response(calls'[Len(calls')]) =
                      [pc |-> "rejected", error |-> "Unauthorized",
                       value |-> <<>>, effects |-> <<>>]]_vars

\* two calls were rejected alike: show-item-in-folder with a path in the
\* Downloads folder from the surface that is not the main window, and a
\* download with a start time the validator refuses from the registered
\* main window, whose location had left the allow-list
C22_Witness ==
    /\ Len(calls) = 2
    /\ IsShowItem(calls[1])
    /\ calls[1].args.filePath = Str(SavedMp3)
    /\ calls[1].sender = OtherSurface
    /\ IsDownload(calls[2])
    /\ calls[2].args.startTime = Num(0 - 100)
    /\ calls[2].mainWindowAtCall # NoWindow
    /\ calls[2].sender = calls[2].mainWindowAtCall
    /\ Response(calls[1]) = [pc |-> "rejected", error |-> "Unauthorized",
                             value |-> <<>>, effects |-> <<>>]
    /\ Response(calls[2]) = Response(calls[1])

\* a call was rejected while no main window was registered
C22_WitnessNoWindow ==
    \E i \in 1..Len(calls) :
        /\ calls[i].mainWindowAtCall = NoWindow
        /\ Response(calls[i]) = [pc |-> "rejected", error |-> "Unauthorized",
                                 value |-> <<>>, effects |-> <<>>]

(***************************************************************************)
(* The order of the rules of validateUrl                                   *)
(***************************************************************************)
\* the rules of validateUrl, each as a test of the argument alone, parsed
\* being what new URL makes of the trimmed text
ParsedArg == URLParse(UrlCore(urlParts))

BreaksRequired == ~IsStringArg \/ TrimmedLength = 0

BreaksLength == IsStringArg /\ TrimmedLength > MAX_URL_LENGTH

BreaksParse(parsed) == IsStringArg /\ ~parsed.ok

BreaksScheme(parsed) ==
    /\ IsStringArg /\ parsed.ok
    /\ parsed.protocol \notin {<<"h", "t", "t", "p", ":">>, <<"h", "t", "t", "p", "s", ":">>}

BreaksHostList(parsed) ==
    /\ IsStringArg /\ parsed.ok
    /\ toLowerCase(parsed.hostname) \in
           {txtLocalhost, <<"1", "2", "7", ".", "0", ".", "0", ".", "1">>,
            <<"0", ".", "0", ".", "0", ".", "0">>, <<":", ":", "1">>,
            <<"[", ":", ":", "1", "]">>}

BreaksPattern(parsed) == IsStringArg /\ parsed.ok /\ MatchesPrivatePattern(parsed.hostname)

BreaksNumeric(parsed) == IsStringArg /\ parsed.ok /\ isLoopbackOrPrivateIP(parsed.hostname)

\* C23: the error of validateUrl is that of the earliest rule the argument
\* breaks, in the order required, too long, unparseable, scheme, listed
\* local host, private range by pattern, numeric loopback or private form;
\* an argument that breaks no rule is accepted.
C23_EarliestRule ==
    UrlCalled =>
        IF BreaksRequired THEN urlResult = Throw("URL is required")
        ELSE IF BreaksLength THEN urlResult = Throw("URL is too long")
        ELSE \E parsed \in {ParsedArg} :
            /\ BreaksParse(parsed) => urlResult = Throw("Invalid URL")
            /\ BreaksScheme(parsed)
                   => urlResult = Throw("Only HTTP and HTTPS URLs are allowed")
            /\ (BreaksHostList(parsed) /\ ~BreaksScheme(parsed))
                   => urlResult = Throw("Localhost URLs are not allowed")
            /\ (BreaksPattern(parsed) /\ ~BreaksScheme(parsed) /\ ~BreaksHostList(parsed))
                   => urlResult = Throw("Private network URLs are not allowed")
            /\ (BreaksNumeric(parsed) /\ ~BreaksScheme(parsed) /\ ~BreaksHostList(parsed)
                   /\ ~BreaksPattern(parsed))
                   => urlResult = Throw("Localhost and private network URLs are not allowed")
            /\ ~(BreaksParse(parsed) \/ BreaksScheme(parsed) \/ BreaksHostList(parsed)
                   \/ BreaksPattern(parsed) \/ BreaksNumeric(parsed))
                   => urlResult.ok

\* 127.0.0.1, on the list and numerically a loopback address, has been
\* rejected with the message of the list
C23_Witness ==
    /\ UrlCalled
    /\ IsHttpArg
    /\ urlParts.hostForm = "dotted" /\ urlParts.octets = <<127, 0, 0, 1>>
    /\ BreaksHostList(ParsedArg) /\ BreaksNumeric(ParsedArg)
    /\ urlResult = Throw("Localhost URLs are not allowed")

\* an ftp URL longer than the limit has been rejected for its length
C23_WitnessLongFtp ==
    /\ UrlCalled
    /\ BreaksLength /\ BreaksScheme(ParsedArg)
    /\ urlResult = Throw("URL is too long")

(***************************************************************************)
(* The sender check is made anew at every call                             *)
(***************************************************************************)
\* C24: a call is accepted exactly when, in the state in which it is made,
\* a main window is registered, the sender is that window, and the window's
\* location at that moment matches the allow-list of that moment; what
\* earlier calls of the same sender were answered plays no part.
C24_CheckedAtEachCall ==
    [][\A s \in SurfaceIds :
           (CallAdded /\ calls'[Len(calls')].sender = s)
               => (Unauthorized(calls'[Len(calls')])
                     <=> ~(/\ mainWindow # NoWindow
                           /\ s = mainWindow
                           /\ MatchesAllowedOrigin(surfaces[s].url)))]_vars

\* a window whose first call was accepted has its second call rejected,
\* being still the registered main window
C24_Witness ==
    /\ Len(calls) = 2
    /\ ~Unauthorized(calls[1])
    /\ calls[2].sender = calls[1].sender
    /\ calls[2].mainWindowAtCall = calls[2].sender
    /\ Unauthorized(calls[2])

\* the main window's call was accepted; after the window closed, a call
\* from the surface that is still open was rejected
C24_WitnessClosed ==
    /\ Len(calls) = 2
    /\ ~Unauthorized(calls[1])
    /\ calls[2].mainWindowAtCall = NoWindow
    /\ Unauthorized(calls[2])

(***************************************************************************)
(* Failure of the transcoder                                               *)
(***************************************************************************)
\* the step is the 'error' event of the transcoder of call i
TranscodeFails(i) == TranscodeSettles(i, "error") \/ TranscodeSettles(i, "errorPartial")

\* C25: when the transcoder of a job with a remote source fails, the step
\* that rejects the call carries the transcoder's error and leaves no file
\* at the path of the fetched input.
C25_TranscodeFailureCleansInput ==
    [][\A i \in 1..MaxCalls :
           (TranscodeFails(i) /\ ~calls[i].isLocalFile)
               => /\ calls'[i].pc = "rejected"
                  /\ calls'[i].error = "ffmpeg failed"
                  /\ \A e \in files' : e.path # PathResolve(calls[i].downloadedFilePath)]_vars

\* a job fetched its input into the temp directory, the transcoder failed,
\* and the input is gone
C25_Witness ==
    \E i \in 1..Len(calls) :
        /\ IsDownload(calls[i])
        /\ ~calls[i].isLocalFile
        /\ HasEffect(calls[i], "process", "yt-dlp")
        /\ HasEffect(calls[i], "process", "ffmpeg")
        /\ startsWith(calls[i].downloadedFilePath, TempDirPath)
        /\ calls[i].pc = "rejected"
        /\ calls[i].error = "ffmpeg failed"
        /\ \A e \in files : e.path # PathResolve(calls[i].downloadedFilePath)

(***************************************************************************)
(* The local source of a job                                               *)
(***************************************************************************)
\* C26: the local source file of a job stays in place, as it was when the
\* job took it, on every path of the job, also when the file lies in the
\* temp directory.
C26_LocalSourceKept ==
    \A i \in 1..Len(calls) :
        (JobStarted(calls[i]) /\ calls[i].isLocalFile /\ calls[i].downloadedFilePath # <<>>)
            => Entry(calls[i].downloadedFilePath, "file", 0) \in files

(***************************************************************************)
(* Cancelling the save dialog                                              *)
(***************************************************************************)
\* the step is the save dialog of call i being canceled
SaveCanceled(i) == SaveDialogSettles(i, <<>>)

\* C27: the step in which the save dialog is canceled rejects the call with
\* 'Save canceled', writes no file anywhere, and leaves neither the file
\* offered for saving nor, for a remote source, the fetched input.
C27_CancelCleansUp ==
    [][\A i \in 1..MaxCalls :
           SaveCanceled(i)
               => /\ calls'[i].pc = "rejected"
                  /\ calls'[i].error = "Save canceled"
                  /\ files' \subseteq files
                  /\ \A e \in files' : e.path # PathResolve(calls[i].finalFile)
                  /\ ~calls[i].isLocalFile
                       => \A e \in files' : e.path # PathResolve(calls[i].downloadedFilePath)]_vars

\* a remote job whose input was fetched and whose output was written has
\* had its dialog canceled; nothing of the job is left in the temp
\* directory and nothing was saved
C27_Witness ==
    \E i \in 1..Len(calls) :
        /\ IsDownload(calls[i])
        /\ ~calls[i].isLocalFile
        /\ HasEffect(calls[i], "process", "yt-dlp")
        /\ HasEffect(calls[i], "dialog", "save")
        /\ calls[i].finalFile = InTempDir(OutputPrefix(calls[i].timestamp) \o txtMp3)
        /\ calls[i].pc = "rejected"
        /\ calls[i].error = "Save canceled"
        /\ JobFilesIn(files, calls[i]) = {}
        /\ \A e \in files : e.path # SavePath(calls[i])

(***************************************************************************)
(* The arguments of the transcoder                                         *)
(***************************************************************************)
\* C28: a job that has started the transcoder told it to seek to startTime
\* exactly when startTime is present, and gave it the duration endTime -
\* startTime exactly when both are present and the difference is positive:
\* with endTime alone, or a difference that is not positive, no duration.
C28_DurationOnlyWithBoth ==
    \A i \in 1..Len(calls) :
        (IsDownload(calls[i]) /\ HasEffect(calls[i], "process", "ffmpeg")) =>
            /\ calls[i].command.seekInput = calls[i].params.startTime
            /\ calls[i].command.duration =
                   IF /\ calls[i].params.startTime # Undefined
                      /\ calls[i].params.endTime # Undefined
                      /\ calls[i].params.endTime.n - calls[i].params.startTime.n > 0
                   THEN Num(calls[i].params.endTime.n - calls[i].params.startTime.n)
                   ELSE Undefined

(***************************************************************************)
(* Properties of the playback-speed filter                                 *)
(***************************************************************************)
TempoCalled == afResult # Pending

\* the product of the stages of a chain, the empty chain giving 1
RECURSIVE StagesProduct(_)
StagesProduct(stages) ==
    IF stages = <<>> THEN Ratio(1, 1)
    ELSE Ratio(Head(stages).num * StagesProduct(Tail(stages)).num,
               Head(stages).den * StagesProduct(Tail(stages)).den)

SameRatio(a, b) == a.num * b.den = b.num * a.den

\* the stage lies in [0.5, 2.0]
StageInRange(r) == 2 * r.num >= r.den /\ r.num <= 2 * r.den

\* the speed given, in hundredths; an absent speed plays at 1
SpeedGiven == IF afInput = Undefined THEN 100 ELSE afInput.n

\* C29: the chain is empty for an absent speed and for 1, two stages of 0.5
\* for 0.25, a stage of 2.0 and one of half the speed above 2.0, and one
\* stage of the speed otherwise; for every speed from 0.25 to 4 the stages
\* multiply to the speed, and each lies in [0.5, 2.0] unless the speed is
\* strictly between 0.25 and 0.5.
C29_FilterChain ==
    (TempoCalled /\ SpeedGiven >= 25 /\ SpeedGiven <= 400) =>
        /\ afResult.ok
        /\ Len(afResult.value) =
               IF SpeedGiven = 100 THEN 0
               ELSE IF SpeedGiven = 25 \/ SpeedGiven > 200 THEN 2 ELSE 1
        /\ SpeedGiven = 25
             => /\ SameRatio(afResult.value[1], Ratio(1, 2))
                /\ SameRatio(afResult.value[2], Ratio(1, 2))
        /\ SpeedGiven > 200
             => /\ SameRatio(afResult.value[1], Ratio(2, 1))
                /\ SameRatio(afResult.value[2], Ratio(SpeedGiven, 200))
        /\ (SpeedGiven # 25 /\ SpeedGiven <= 200 /\ SpeedGiven # 100)
             => SameRatio(afResult.value[1], Ratio(SpeedGiven, 100))
        /\ SameRatio(StagesProduct(afResult.value), Ratio(SpeedGiven, 100))
        /\ ~(SpeedGiven > 25 /\ SpeedGiven < 50)
             => \A k \in 1..Len(afResult.value) : StageInRange(afResult.value[k])

\* a speed of 3.01 has been given the chain 2.0, 1.505
C29_Witness ==
    /\ TempoCalled
    /\ afInput = Num(301)
    /\ Len(afResult.value) = 2
    /\ SameRatio(afResult.value[2], Ratio(301, 200))
    /\ SameRatio(StagesProduct(afResult.value), Ratio(301, 100))

(***************************************************************************)
(* The stages of a job                                                     *)
(***************************************************************************)
\* the first a in the effects of c comes before the first b
FirstBefore(c, a, b) ==
    \E j \in 1..Len(c.effects) :
        /\ c.effects[j] = a
        /\ \A m \in 1..j : c.effects[m] # b

\* what a job has done so far is in the order of the stages
StagesInOrder(c) ==
    /\ HasEffect(c, "process", "yt-dlp")
         => /\ FirstBefore(c, Effect("validator", "validateDownloadParams"),
                           Effect("process", "yt-dlp"))
            /\ FirstBefore(c, Effect("validator", "validateUrl"), Effect("process", "yt-dlp"))
    /\ HasEffect(c, "process", "ffmpeg")
         => /\ FirstBefore(c, Effect("validator", "validateDownloadParams"),
                           Effect("process", "ffmpeg"))
            /\ c.downloadedFilePath # <<>>
            /\ IF c.isLocalFile
               THEN FirstBefore(c, Effect("validator", "validateLocalFilePath"),
                                Effect("process", "ffmpeg"))
               ELSE /\ FirstBefore(c, Effect("process", "yt-dlp"), Effect("process", "ffmpeg"))
                    /\ startsWith(c.downloadedFilePath, TempDirPath \o <<"/">>)
    /\ HasEffect(c, "dialog", "save")
         => /\ FirstBefore(c, Effect("process", "ffmpeg"), Effect("fs", "readdir"))
            /\ FirstBefore(c, Effect("fs", "readdir"), Effect("dialog", "save"))

\* the stage a job is in: 1 acquiring, 2 converting, 3 finalizing, 4 settled
StageOf(c) ==
    CASE c.pc \in {"probe", "fetch"} -> 1
      [] c.pc = "transcode" -> 2
      [] c.pc = "saveDialog" -> 3
      [] c.pc \in {"resolved", "rejected"} -> 4
      [] OTHER -> 0

\* the step moves job c to d by one stage, or to Failed, or not at all
OneStage(c, d) ==
    \/ d = c
    \/ /\ StageOf(c) < 4
       /\ \/ d.pc = "rejected"
          \/ StageOf(d) = StageOf(c) + 1
          \/ c.pc = "probe" /\ d.pc = "fetch"

\* C30: every job does its work in the order of the stages, the fetch
\* after both validators, the transcoder after the source is validated and
\* the fetched file located, the save dialog after the transcoder's 'end';
\* a step moves a job one stage on or fails it, a job with a local source
\* starts at converting, only the transcoder's 'end' opens the save
\* dialog, and a settled job never changes again.
C30_StagesInOrder ==
    [][\A i \in 1..Len(calls') :
           IsDownload(calls'[i]) =>
               /\ StagesInOrder(calls'[i])
               /\ IF i <= Len(calls)
                  THEN /\ OneStage(calls[i], calls'[i])
                       /\ (calls[i].pc # "saveDialog" /\ calls'[i].pc = "saveDialog")
                            => (TranscodeSettles(i, "end") \/ TranscodeSettles(i, "endNoOutput"))
                  ELSE \/ calls'[i].pc = "rejected"
                       \/ StageOf(calls'[i]) = IF calls'[i].isLocalFile THEN 2 ELSE 1]_vars

\* a job with a remote source went through every stage and was saved
C30_Witness ==
    \E i \in 1..Len(calls) :
        /\ IsDownload(calls[i])
        /\ ~calls[i].isLocalFile
        /\ calls[i].pc = "resolved"
        /\ calls[i].value = SavePath(calls[i])
        /\ HasEffect(calls[i], "process", "yt-dlp")
        /\ HasEffect(calls[i], "process", "ffmpeg")
        /\ HasEffect(calls[i], "dialog", "save")
        /\ StagesInOrder(calls[i])

(***************************************************************************)
(* Jobs side by side                                                       *)
(***************************************************************************)
\* C31: any two jobs have different identifiers, and so different names
\* for their temp input and output, also when the second starts while
\* the first is suspended.
C31_IdentifierNeverReused ==
    \A i, j \in 1..Len(calls) :
        (i # j /\ JobStarted(calls[i]) /\ JobStarted(calls[j]))
            => /\ calls[i].timestamp # calls[j].timestamp
               /\ OutputPrefix(calls[i].timestamp) # OutputPrefix(calls[j].timestamp)
               /\ VideoPrefix(calls[i].timestamp) # VideoPrefix(calls[j].timestamp)

\* jobs i and j are different jobs with different identifiers
DistinctJobs(i, j) ==
    /\ i # j
    /\ JobStarted(calls[i]) /\ JobStarted(calls[j])
    /\ calls[i].timestamp # calls[j].timestamp

\* C32: in every step taken by one of two jobs with different identifiers,
\* the temp files of the other job stay as they are, and the file the job
\* offers to the save dialog is the output of its own transcoder.
C32_JobsKeepApart ==
    [][\A i, j \in 1..Len(calls) :
           (DistinctJobs(i, j) /\ calls'[i] # calls[i])
               => /\ JobFilesIn(files, calls[j]) \subseteq files'
                  /\ calls'[i].finalFile # <<>>
                       => calls'[i].finalFile
                              = InTempDir(OutputPrefix(calls[i].timestamp) \o txtMp3)]_vars

(***************************************************************************)
(* No retry                                                                *)
(***************************************************************************)
\* how often the job has started something of the kind and detail
TimesDone(c, kind, detail) ==
    Cardinality({k \in 1..Len(c.effects) : c.effects[k] = Effect(kind, detail)})

\* what the job did in the step after position n of its effects is no
\* process, dialog or notification
NothingStartedAfter(c, n) ==
    \A k \in (n + 1)..Len(c.effects) : c.effects[k].kind \notin {"process", "dialog", "phase"}

\* the last validator the job has called
LastValidator(c) ==
    IF \E k \in 1..Len(c.effects) : c.effects[k].kind = "validator"
    THEN CHOOSE k \in 1..Len(c.effects) :
             /\ c.effects[k].kind = "validator"
             /\ \A m \in (k + 1)..Len(c.effects) : c.effects[m].kind # "validator"
    ELSE 0

\* the call was rejected by one of the validators
ValidationFailed(c) ==
    /\ c.pc = "rejected"
    /\ ~Unauthorized(c)
    /\ ~HasEffect(c, "process", "yt-dlp") /\ ~HasEffect(c, "process", "ffmpeg")
    /\ c.error \notin {"TypeError", "ENOENT"}

\* the step is the title probe of call i settling without a title: the
\* probe was rejected (the error is logged) or gave none
ProbeFails(i) == ProbeSettles(i, <<>>)

\* a failed fetch, transcoder or validator ends the job in the same step
FailureIsTerminal ==
    /\ \A i \in 1..Len(calls) :
           (IsDownload(calls[i]) /\ (FetchFails(i) \/ TranscodeFails(i)))
               => /\ calls'[i].pc = "rejected"
                  /\ NothingStartedAfter(calls'[i], Len(calls[i].effects))
    /\ (CallAdded /\ IsDownload(calls'[Len(calls')]) /\ ValidationFailed(calls'[Len(calls')]))
           => NothingStartedAfter(calls'[Len(calls')], LastValidator(calls'[Len(calls')]))

StartedAtMostOnce ==
    \A i \in 1..Len(calls') :
        IsDownload(calls'[i])
            => /\ TimesDone(calls'[i], "process", "yt-dlp") <= 1
               /\ TimesDone(calls'[i], "process", "ffmpeg") <= 1

\* C33, as stated: a job starts the download process and the transcoder at
\* most once each, and after the failure of any external process (the title
\* probe included) or of a validator it starts no process, dialog or
\* notification and reports the failure.
C33_EveryFailureTerminal ==
    [][/\ StartedAtMostOnce
       /\ FailureIsTerminal
       /\ \A i \in 1..Len(calls) :
              (IsDownload(calls[i]) /\ ProbeFails(i))
                  => /\ calls'[i].pc = "rejected"
                     /\ NothingStartedAfter(calls'[i], Len(calls[i].effects))]_vars

\* C33, amended: a job starts the download process and the transcoder at
\* most once each, and after the failure of the fetch, of the transcoder
\* or of a validator it starts no process, dialog or notification and is
\* rejected in that step; the title probe is no such failure.
C33_NoRetry == [][StartedAtMostOnce /\ FailureIsTerminal]_vars

\* a job's fetch failed and the job was rejected, having run the
\* download process once and the transcoder never
C33_Witness ==
    \E i \in 1..Len(calls) :
        /\ IsDownload(calls[i])
        /\ calls[i].pc = "rejected"
        /\ calls[i].error = "yt-dlp failed"
        /\ TimesDone(calls[i], "process", "yt-dlp") = 1
        /\ TimesDone(calls[i], "process", "ffmpeg") = 0
        /\ ~HasEffect(calls[i], "dialog", "save")

(***************************************************************************)
(* Processing phases                                                       *)
(***************************************************************************)
\* positions of the effects call i gains in the step (all of them when the
\* step adds the call)
GainedIn(i) ==
    {k \in 1..Len(calls'[i].effects) : i > Len(calls) \/ k > Len(calls[i].effects)}

PhaseGained(i, phase) ==
    \E k \in GainedIn(i) : calls'[i].effects[k] = Effect("phase", phase)

\* the job's input is a fetched file of its own that is in the temporary
\* directory
FetchedLocated(fs, c) ==
    \E f \in DownloadedCandidates(fs, c) :
        /\ c.downloadedFilePath = InTempDir(f)
        /\ existsSync(fs, InTempDir(f))

\* the phases of a job in the order they were sent
PhasesInOrder(c) ==
    /\ c.isLocalFile => ~HasEffect(c, "phase", "downloading")
    /\ ~c.isLocalFile =>
           \A k \in 1..Len(c.effects) :
               c.effects[k] = Effect("phase", "converting")
                   => /\ \E m \in 1..(k - 1) : c.effects[m] = Effect("phase", "downloading")
                      /\ \E m \in 1..(k - 1) : c.effects[m] = Effect("process", "yt-dlp")

\* C34: a job with a local source sends only 'converting'; a job with a
\* remote source sends 'downloading' before any 'converting' and sends
\* 'converting' only in the step in which its fetch has ended well and the
\* fetched file was found; a settled job sends nothing, and nothing is sent
\* while the main window is gone.
C34_PhasesFollowJob ==
    [][\A i \in 1..Len(calls') :
          IsDownload(calls'[i])
              => /\ PhasesInOrder(calls'[i])
                 /\ \A phase \in {"downloading", "converting"} :
                        PhaseGained(i, phase)
                            => /\ MainWindowAlive
                               /\ i <= Len(calls) => ~Settled(calls[i])
                 /\ (PhaseGained(i, "converting") /\ ~calls'[i].isLocalFile)
                        => /\ Running(i, "fetch")
                           /\ FetchSettles(i, "written")
                           /\ FetchedLocated(files', calls'[i])]_vars

\* a job with a remote source has sent 'downloading', run the download
\* process and then sent 'converting'
C34_Witness ==
    \E i \in 1..Len(calls) :
        /\ IsDownload(calls[i]) /\ ~calls[i].isLocalFile
        /\ calls[i].pc = "transcode"
        /\ FirstBefore(calls[i], Effect("phase", "downloading"), Effect("process", "yt-dlp"))
        /\ FirstBefore(calls[i], Effect("process", "yt-dlp"), Effect("phase", "converting"))

\* a job's fetched file is being transcoded with no 'converting' sent, the
\* main window having gone meanwhile
C34_WitnessWindowGone ==
    \E i \in 1..Len(calls) :
        /\ IsDownload(calls[i]) /\ ~calls[i].isLocalFile
        /\ calls[i].pc = "transcode"
        /\ HasEffect(calls[i], "phase", "downloading")
        /\ ~HasEffect(calls[i], "phase", "converting")
        /\ ~MainWindowAlive

(***************************************************************************)
(* The main-window handle                                                  *)
(***************************************************************************)
\* C36: mainWindow is given a window only by the startup, so at most once,
\* and once a close has cleared it, it stays cleared - over startup, window
\* close and re-activation of the application.
C36_HandleSetOnce ==
    [][/\ (mainWindow' # NoWindow /\ mainWindow' # mainWindow) => appState = "starting"
       /\ (appState = "ready" /\ mainWindow = NoWindow) => mainWindow' = NoWindow]_vars

\* the handle holds a window that is not the one the startup made
C36_SecondWindowHeld ==
    /\ appState = "ready"
    /\ mainWindow # NoWindow
    /\ mainWindow # MinOf(Windows)

\* C36, amended: mainWindow is given a window by every createWindow and by
\* nothing else - at startup and, on darwin, when the application is
\* activated with no window open; a step changes it to nothing only when a
\* window closes; off darwin it is given a window at most once and stays
\* cleared after a close.
C36_HandleFollowsCreateWindow ==
    [][/\ \A w \in Windows :
              (surfaces[w].state = "none" /\ surfaces'[w].state = "open") => mainWindow' = w
       /\ (mainWindow' # NoWindow /\ mainWindow' # mainWindow)
              => /\ surfaces[mainWindow'].state = "none" /\ surfaces'[mainWindow'].state = "open"
                 /\ \/ appState = "starting"
                    \/ platform = "darwin" /\ activateHandler /\ OpenWindows = {}
       /\ (mainWindow # NoWindow /\ mainWindow' = NoWindow)
              => \E w \in Windows : IsOpen(w) /\ surfaces'[w].state # "open"
       /\ (platform # "darwin" /\ appState = "ready" /\ mainWindow = NoWindow)
              => mainWindow' = NoWindow]_vars

(***************************************************************************)
(* The title probe (SpecTitle)                                             *)
(***************************************************************************)
ProbeRun(c) == HasEffect(c, "process", "getVideoInfo")

\* C37: the title probe of a job never fails the job: when it settles, the
\* job goes on to the fetch, with the title 'output' when the probe gave
\* none; the probe is run for a remote source with an accepted URL and no
\* non-blank string title, and never for a local source or a non-blank
\* string title.
C37_ProbeBestEffort ==
    [][/\ \A i \in 1..Len(calls), title \in {<<>>, <<"t", "/", "2">>} :
              ProbeSettles(i, title)
                  => /\ calls'[i].pc = "fetch"
                     /\ FirstBefore(calls'[i], Effect("process", "getVideoInfo"),
                                    Effect("process", "yt-dlp"))
                     /\ HasEffect(calls'[i], "process", "yt-dlp")
                     /\ title = <<>> => calls'[i].videoTitle = txtOutput
       /\ \A i \in 1..Len(calls') :
              (IsDownload(calls'[i]) /\ ProbeRun(calls'[i]))
                  => /\ ~calls'[i].isLocalFile
                     /\ ~TitleGiven(calls'[i].args.title)
       /\ (/\ CallAdded
           /\ JobStarted(calls'[Len(calls')])
           /\ ~calls'[Len(calls')].isLocalFile
           /\ ~TitleGiven(calls'[Len(calls')].args.title)
           /\ calls'[Len(calls')].args.url = Str(PublicUrl)
           /\ ytDlpWrap)
              => calls'[Len(calls')].pc = "probe"]_vars

\* a job given a blank title has run the probe, got no title from it, and
\* is fetching under the title 'output'
C37_Witness ==
    \E i \in 1..Len(calls) :
        /\ IsDownload(calls[i])
        /\ calls[i].args.title = Str(<<" ">>)
        /\ ProbeRun(calls[i])
        /\ calls[i].pc = "fetch"
        /\ calls[i].videoTitle = txtOutput

\* a job given a title with text is fetching without having run the probe
C37_WitnessTitled ==
    \E i \in 1..Len(calls) :
        /\ IsDownload(calls[i])
        /\ calls[i].args.title = Str(<<" ", "t">>)
        /\ ~ProbeRun(calls[i])
        /\ calls[i].pc = "fetch"
        /\ calls[i].videoTitle = <<"t">>

ApiCalled == apiResult # Pending

\* C38: for every text, /api/video-info refuses to start the probe exactly
\* when validateUrl rejects the text.
C38_SameDecision == ApiCalled => (apiResult.ok <=> urlResult.ok)

\* what does hold of the texts without a percent escape: a text the
\* endpoint refuses is a text validateUrl rejects
C38_ApiNoStricter ==
    (ApiCalled /\ urlParts \notin EscapedArgs /\ ~apiResult.ok) => ~urlResult.ok

\* the endpoint goes on to probe a text validateUrl rejects for its length
C38_LongProbed ==
    /\ ApiCalled /\ apiResult.ok
    /\ urlResult = Throw("URL is too long")

\* the endpoint goes on to probe a host validateUrl rejects as an address
C38_AddressProbed ==
    /\ ApiCalled /\ apiResult.ok
    /\ urlResult = Throw("Localhost and private network URLs are not allowed")

\* the endpoint throws on a text validateUrl accepts
C38_EscapeThrown ==
    /\ ApiCalled /\ apiResult = Throw("URIError")
    /\ urlResult.ok

(***************************************************************************)
(* The ordering check of the wizard (SpecUi)                               *)
(***************************************************************************)
Ordered(start, end) == end.t # "null" /\ end.n > start.n

\* the wizard leaves the trim step the user sees for the speed step
AdvancesToSpeed ==
    rendered.currentStep = 3 /\ wizard.currentStep # 4 /\ wizard'.currentStep = 4

\* downloadMP3 is called
Submits == ~pending.job /\ pending'.job

AdvanceOrdered ==
    (AdvancesToSpeed /\ wizard'.durationSeconds.t # "null")
        => Ordered(wizard'.startSeconds, wizard'.endSeconds)

SubmissionOrdered ==
    (Submits /\ pending'.submitted.duration.t # "null")
        => Ordered(pending'.submitted.startTime, pending'.submitted.endTime)

\* C39: whenever the wizard has a known duration it never advances from the
\* trim step to the speed step, and never calls downloadMP3, with the end
\* time absent or not greater than the start time.
C39_OrderedBeforeBackend == [][AdvanceOrdered /\ SubmissionOrdered]_vars

\* the speed step is shown with a known duration and an end time that is
\* absent or not after the start time
C39_UnorderedAtSpeed ==
    /\ rendered.currentStep = 4 /\ wizard = rendered
    /\ rendered.durationSeconds.t # "null"
    /\ ~Ordered(rendered.startSeconds, rendered.endSeconds)

\* downloadMP3 is in flight with such times
C39_UnorderedSubmitted ==
    /\ pending.job
    /\ pending.submitted.duration.t # "null"
    /\ ~Ordered(pending.submitted.startTime, pending.submitted.endTime)

\* what does hold: a Continue that acts on the state the user sees, no update
\* waiting to be rendered, never leaves the trim step with such times
C39_CheckOnShownState ==
    [][(/\ rendered = wizard /\ rendered.currentStep = 3
        /\ rendered' = wizard' /\ wizard'.currentStep = 4
        /\ wizard'.durationSeconds.t # "null")
           => Ordered(wizard'.startSeconds, wizard'.endSeconds)]_vars
====
